---- MODULE Spec2Model ----
(***************************************************************************)
(* textract2page: conversion of an AWS Textract response (a flat list of   *)
(* Blocks) into a PAGE-XML document.  The module models                    *)
(*   - the geometry classes and points_from_aws_geometry, with Python's    *)
(*     float arithmetic (IEEE-754 binary64, round-to-nearest-even),        *)
(*   - convert_file_without_image as a sequence of phases over one input,  *)
(*   - its callers convert_file and the command line (cli).                *)
(***************************************************************************)
EXTENDS Integers, Sequences, FiniteSets, TLC

VARIABLES
    geo,        \* SpecGeom: one geometry being constructed and converted;
                \* Spec: the geometry objects and points of the response
    pc,         \* position inside cli, convert_file, convert_file_without_image
    inp,        \* the call's arguments: Blocks, img_width, img_height, out_path
                \* (0 and "" until assigned); in cli also the options
                \* output_file, image_width, image_height
    reg,        \* the block registry (per-type dicts, block_order)
    ent,        \* the entity graph (words, lines, tables, values, keys, layouts)
    ro,         \* reading order: text_regions, resolved sequence, global group
    page,       \* the emitted PAGE tree (nodes in emission order)
    fs,         \* the file at out_path, standard output, the image at img_path
    err         \* the exception that aborted the conversion, "" if none

vars == <<geo, pc, inp, reg, ent, ro, page, fs, err>>

-----------------------------------------------------------------------------
(* Python floats (IEEE-754 binary64, round to nearest, ties to even).       *)
(* A non-negative double is held as the natural n = value * 2^FracBits,     *)
(* written little-endian in limbs of LimbBits bits.  Every double that is   *)
(* zero or lies in [2^-7, 2^15) is such an n exactly.                       *)

FloatFormat == [mant |-> 53, limb |-> 15, fraclimbs |-> 4]
MantBits == FloatFormat.mant
LimbBits == FloatFormat.limb
LimbBase == 2^LimbBits
FracLimbs == FloatFormat.fraclimbs
FracBits == FracLimbs * LimbBits

Max(a, b) == IF a >= b THEN a ELSE b
Min(a, b) == IF a <= b THEN a ELSE b

Zeros(n) == [i \in 1..n |-> 0]
Limb(n, j) == IF j >= 1 /\ j <= Len(n) THEN n[j] ELSE 0
Bit(n, idx) == (Limb(n, idx \div LimbBits + 1) \div 2^(idx % LimbBits)) % 2

RECURSIVE SmallBitLen(_)
SmallBitLen(x) == IF x = 0 THEN 0 ELSE 1 + SmallBitLen(x \div 2)

TopLimb(n) == LET S == {j \in 1..Len(n) : n[j] # 0}
              IN  IF S = {} THEN 0 ELSE CHOOSE j \in S : \A k \in S : k <= j
TrimLimbs(n) == SubSeq(n, 1, TopLimb(n))
BitLen(n) == IF TopLimb(n) = 0 THEN 0
             ELSE LimbBits * (TopLimb(n) - 1) + SmallBitLen(n[TopLimb(n)])

RECURSIVE Normalize(_, _)
Normalize(s, c) ==
    IF Len(s) = 0 THEN (IF c = 0 THEN <<>> ELSE <<c>>)
    ELSE <<(s[1] + c) % LimbBase>> \o Normalize(Tail(s), (s[1] + c) \div LimbBase)

AddLimbs(a, b) ==
    Normalize([i \in 1..Max(Len(a), Len(b)) |-> Limb(a, i) + Limb(b, i)], 0)
MulLimbs(a, k) == Normalize([i \in 1..Len(a) |-> a[i] * k], 0)

LowNonZero(n, k) ==
    \/ \E j \in 1..Len(n) : j <= k \div LimbBits /\ n[j] # 0
    \/ Limb(n, k \div LimbBits + 1) % 2^(k % LimbBits) # 0
ClearLow(n, k) ==
    [j \in 1..Len(n) |->
        IF j <= k \div LimbBits THEN 0
        ELSE IF j = k \div LimbBits + 1 THEN n[j] - (n[j] % 2^(k % LimbBits))
        ELSE n[j]]
Pow2Limbs(k) == Zeros(k \div LimbBits) \o <<2^(k % LimbBits)>>

(* Round a natural (sticky: something non-zero was already cut off below    *)
(* it) to MantBits significant bits, ties to even.                          *)
RoundToDouble(n, sticky) ==
    LET d == BitLen(n) - MantBits
    IN  IF d <= 0 THEN TrimLimbs(n)
        ELSE LET half  == Bit(n, d - 1) = 1
                 below == sticky \/ LowNonZero(n, d - 1)
                 up    == half /\ (below \/ Bit(n, d) = 1)
             IN  TrimLimbs(IF up THEN AddLimbs(ClearLow(n, d), Pow2Limbs(d))
                                 ELSE ClearLow(n, d))

(* The remainder of n/d after i fraction limbs have been produced.          *)
RECURSIVE FracRem(_, _, _)
FracRem(n, d, i) == IF i = 0 THEN n % d ELSE (LimbBase * FracRem(n, d, i - 1)) % d

(* json.load of the decimal literal n/d (n >= 0): the nearest double.       *)
ParseDecimal(n, d) ==
    LET frac == [j \in 1..FracLimbs |->
                    (LimbBase * FracRem(n, d, FracLimbs - j)) \div d]
    IN  RoundToDouble(frac \o <<n \div d>>, FracRem(n, d, FracLimbs) # 0)

FloatAdd(a, b) == RoundToDouble(AddLimbs(a, b), FALSE)
FloatMulInt(a, k) == RoundToDouble(MulLimbs(a, k), FALSE)

FloatLeOne(a) ==
    \/ Len(a) <= FracLimbs
    \/ Len(a) = FracLimbs + 1 /\ a[FracLimbs + 1] = 1
                              /\ \A j \in 1..FracLimbs : a[j] = 0

\* math.floor of a double below 2^15
FloorFloat(a) == Limb(a, FracLimbs + 1)

\* math.ceil of a double below 2^15
CeilFloat(a) ==
    Limb(a, FracLimbs + 1)
    + (IF \E j \in 1..Min(FracLimbs, Len(a)) : a[j] # 0 THEN 1 ELSE 0)

-----------------------------------------------------------------------------
(* JSON numbers and the geometry classes.                                   *)
(* A JSON number is the decimal literal n/d; d = 0 stands for an absent key.*)

Num(n, d) == [n |-> n, d |-> d]
Absent == Num(0, 0)

\* a Python float: sign and magnitude
MinusOne == [neg |-> TRUE, mag |-> ParseDecimal(1, 1)]
FloatOf(x) == [neg |-> x.n < 0,
               mag |-> ParseDecimal(IF x.n < 0 THEN 0 - x.n ELSE x.n, x.d)]

\* dict.get(key, -1)
GetOrMinusOne(x) == IF x.d = 0 THEN MinusOne ELSE FloatOf(x)

\* 0 <= x <= 1
InUnitInterval(f) == ~f.neg /\ FloatLeOne(f.mag)

\* the exception raised by a constructor, as a value
Raised(exc) == [exc |-> exc, kind |-> "", left |-> <<>>, top |-> <<>>,
                width |-> <<>>, height |-> <<>>, points |-> <<>>]

TextractPoint(x, y) ==
    IF InUnitInterval(x) /\ InUnitInterval(y)
    THEN [exc |-> "", x |-> x.mag, y |-> y.mag]
    ELSE [exc |-> "AssertionError", x |-> <<>>, y |-> <<>>]

\* a bounding box whose extents left + width, top + height are not checked
BoundingBoxUnchecked(bbox_dict) ==
    LET left   == GetOrMinusOne(bbox_dict.Left)
        top    == GetOrMinusOne(bbox_dict.Top)
        width  == GetOrMinusOne(bbox_dict.Width)
        height == GetOrMinusOne(bbox_dict.Height)
    IN  IF /\ InUnitInterval(left)
           /\ InUnitInterval(top)
           /\ InUnitInterval(width)
           /\ InUnitInterval(height)
        THEN [exc |-> "", kind |-> "TextractBoundingBox",
              left |-> left.mag, top |-> top.mag,
              width |-> width.mag, height |-> height.mag, points |-> <<>>]
        ELSE Raised("AssertionError")

TextractBoundingBox(bbox_dict) ==
    LET left   == GetOrMinusOne(bbox_dict.Left)
        top    == GetOrMinusOne(bbox_dict.Top)
        width  == GetOrMinusOne(bbox_dict.Width)
        height == GetOrMinusOne(bbox_dict.Height)
    IN  IF /\ InUnitInterval(left)
           /\ InUnitInterval(top)
           /\ InUnitInterval(width)
           /\ InUnitInterval(height)
           /\ FloatLeOne(FloatAdd(width.mag, left.mag))
           /\ FloatLeOne(FloatAdd(height.mag, top.mag))
        THEN [exc |-> "", kind |-> "TextractBoundingBox",
              left |-> left.mag, top |-> top.mag,
              width |-> width.mag, height |-> height.mag, points |-> <<>>]
        ELSE Raised("AssertionError")

TextractPolygon(polygon) ==
    LET pts == [i \in 1..Len(polygon) |->
                  TextractPoint(GetOrMinusOne(polygon[i].X),
                                GetOrMinusOne(polygon[i].Y))]
    IN  IF \E i \in 1..Len(pts) : pts[i].exc # "" THEN Raised("AssertionError")
        ELSE IF ~(Len(pts) >= 3) THEN Raised("AssertionError")
        ELSE [exc |-> "", kind |-> "TextractPolygon",
              left |-> <<>>, top |-> <<>>, width |-> <<>>, height |-> <<>>,
              points |-> pts]

build_aws_geometry(aws_block_geometry) ==
    IF aws_block_geometry.Polygon.present
    THEN TextractPolygon(aws_block_geometry.Polygon.pts)
    ELSE TextractBoundingBox(aws_block_geometry.BoundingBox)

\* math.ceil(fraction * dimension), in float arithmetic
CeilScaled(fraction, dimension) == CeilFloat(FloatMulInt(fraction, dimension))

\* the pixel corners x1,y1 .. x4,y4 of a bounding box
BoundingBoxCorners(g, page_width, page_height) ==
    LET x1 == CeilScaled(g.left, page_width)
        y1 == CeilScaled(g.top, page_height)
        x2 == CeilScaled(FloatAdd(g.left, g.width), page_width)
        y2 == y1
        x3 == x2
        y3 == CeilScaled(FloatAdd(g.top, g.height), page_height)
        x4 == x1
        y4 == y3
    IN  << <<x1, y1>>, <<x2, y2>>, <<x3, y3>>, <<x4, y4>> >>

PolygonCorners(g, page_width, page_height) ==
    [i \in 1..Len(g.points) |->
        <<CeilScaled(g.points[i].x, page_width),
          CeilScaled(g.points[i].y, page_height)>>]

\* " ".join(f"{x},{y}" ...)
RECURSIVE JoinPoints(_)
JoinPoints(ps) ==
    IF Len(ps) = 0 THEN ""
    ELSE ToString(ps[1][1]) \o "," \o ToString(ps[1][2])
         \o (IF Len(ps) = 1 THEN "" ELSE " " \o JoinPoints(Tail(ps)))

points_from_aws_geometry(textract_geom, page_width, page_height) ==
    IF textract_geom.kind = "TextractBoundingBox"
    THEN JoinPoints(BoundingBoxCorners(textract_geom, page_width, page_height))
    ELSE JoinPoints(PolygonCorners(textract_geom, page_width, page_height))

-----------------------------------------------------------------------------
(* SpecGeom: one geometry of a block is constructed and, if that succeeds,  *)
(* converted to pixel points for one page size.                             *)

MaxPolygonPoints == 3

BBox(l, t, w, h) == [Left |-> l, Top |-> t, Width |-> w, Height |-> h]
NoPolygon == [present |-> FALSE, pts |-> <<>>]
BoxGeometry(l, t, w, h) == [Polygon |-> NoPolygon, BoundingBox |-> BBox(l, t, w, h)]
PolygonGeometry(pts) == [Polygon |-> [present |-> TRUE, pts |-> pts],
                         BoundingBox |-> BBox(Absent, Absent, Absent, Absent)]

XChoices == {Absent, Num(-1, 10), Num(0, 1), Num(1, 10), Num(2, 10), Num(7, 10),
             Num(3, 10), Num(1, 1), Num(11, 10)}
YChoices == {Num(0, 1), Num(1, 10), Num(5, 100), Num(95, 100), Num(15, 10)}
PointChoices == {[X |-> Num(1, 10), Y |-> Num(1, 10)],
                 [X |-> Num(9, 10), Y |-> Num(1, 10)],
                 [X |-> Num(5, 10), Y |-> Num(1, 1)],
                 [X |-> Num(11, 10), Y |-> Num(5, 10)],
                 [X |-> Num(5, 10), Y |-> Num(-1, 10)],
                 [X |-> Absent, Y |-> Num(5, 10)]}

RECURSIVE SeqsUpTo(_, _)
SeqsUpTo(S, n) ==
    IF n = 0 THEN {<<>>}
    ELSE LET shorter == SeqsUpTo(S, n - 1)
         IN  shorter \cup {Append(q, x) : q \in shorter, x \in S}

GeomInputs ==
    {BoxGeometry(l, t, w, h) : l \in XChoices, w \in XChoices,
                               t \in YChoices, h \in YChoices}
    \cup {PolygonGeometry(pts) : pts \in SeqsUpTo(PointChoices, MaxPolygonPoints)}

PageSizes == {<<1000, 2000>>, <<7, 3>>}

Idle == <<>>

GeomInit ==
    /\ geo \in {[pc |-> "start", json |-> g, page_width |-> sz[1],
                 page_height |-> sz[2], geometry |-> Raised(""), points |-> ""] :
                   g \in GeomInputs, sz \in PageSizes}
    /\ pc = "idle" /\ inp = Idle /\ reg = Idle /\ ent = Idle
    /\ ro = Idle /\ page = Idle /\ fs = Idle /\ err = ""

\* TextractBlock.__init__: self.geometry = build_aws_geometry(...)
GeomBuild ==
    /\ geo.pc = "start"
    /\ LET g == build_aws_geometry(geo.json)
       IN  geo' = [geo EXCEPT !.geometry = g,
                              !.pc = IF g.exc = "" THEN "built" ELSE "raised"]
    /\ UNCHANGED <<pc, inp, reg, ent, ro, page, fs, err>>

\* CoordsType(points=points_from_aws_geometry(block.geometry, img_width, img_height))
GeomPoints ==
    /\ geo.pc = "built"
    /\ geo' = [geo EXCEPT !.points = points_from_aws_geometry(
                                        geo.geometry, geo.page_width, geo.page_height),
                          !.pc = "converted"]
    /\ UNCHANGED <<pc, inp, reg, ent, ro, page, fs, err>>

GeomNext == GeomBuild \/ GeomPoints

SpecGeom == GeomInit /\ [][GeomNext]_vars

-----------------------------------------------------------------------------
(* convert_file_without_image: the Textract response.                       *)
(* A block is a record Id, BlockType, Geometry, Confidence (a JSON number,  *)
(* possibly absent), Relationships (a sequence of [Type, Ids]),             *)
(* EntityTypes, Text and RowIndex, ColumnIndex, RowSpan, ColumnSpan         *)
(* (0: the key is absent).                                                  *)

RECURSIVE Fold(_, _, _)
Fold(Op(_, _), acc, s) ==
    IF Len(s) = 0 THEN acc ELSE Fold(Op, Op(acc, s[1]), Tail(s))

Range(s) == {s[i] : i \in 1..Len(s)}
Contains(s, x) == \E i \in 1..Len(s) : s[i] = x
\* list.index(x); 0 when list.index raises ValueError
IndexOf(s, x) == IF Contains(s, x)
                 THEN CHOOSE i \in 1..Len(s) : s[i] = x /\ \A j \in 1..(i - 1) : s[j] # x
                 ELSE 0
Remove(s, x) == SelectSeq(s, LAMBDA y : y # x)
Put(f, k, v) == [x \in DOMAIN f \cup {k} |-> IF x = k THEN v ELSE f[x]]
\* d[k] = v on an insertion-ordered dict, as the sequence of its keys
DictKeysPut(keyseq, k) == IF Contains(keyseq, k) THEN keyseq ELSE Append(keyseq, k)

\* references between objects; None is Ref("none", "")
Ref(k, id) == [k |-> k, id |-> id, t |-> "", i |-> 0]
CellRef(k, id, t, i) == [k |-> k, id |-> id, t |-> t, i |-> i]
None == Ref("none", "")
Truthy(r) == r.k # "none"

\* the block with this Id (the dicts of the registry hold blocks by Id)
BlockAt(blocks, id) ==
    blocks[CHOOSE i \in 1..Len(blocks) :
              blocks[i].Id = id /\ \A j \in (i + 1)..Len(blocks) : blocks[j].Id # id]
Block(id) == BlockAt(inp.Blocks, id)

LayoutBlockTypes ==
    {"LAYOUT_TITLE", "LAYOUT_HEADER", "LAYOUT_FOOTER", "LAYOUT_SECTION_HEADER",
     "LAYOUT_PAGE_NUMBER", "LAYOUT_LIST", "LAYOUT_FIGURE", "LAYOUT_TABLE",
     "LAYOUT_KEY_VALUE_SET", "LAYOUT_TEXT"}
\* str.startswith("LAYOUT_")
StartsWithLayout(s) == Len(s) >= 7 /\ SubSeq(s, 1, 7) = "LAYOUT_"

get_ids_of_child_blocks(aws_block) ==
    LET child == SelectSeq(aws_block.Relationships, LAMBDA rel : rel.Type = "CHILD")
    IN  IF Len(child) = 0 THEN <<>> ELSE child[1].Ids

\* the ids of the first VALUE relationship (TextractKey.__init__)
ValueIdsOf(aws_block) ==
    LET value == SelectSeq(aws_block.Relationships, LAMBDA rel : rel.Type = "VALUE")
    IN  IF Len(value) = 0 THEN <<>> ELSE value[1].Ids

-----------------------------------------------------------------------------
(* setup: read textract blocks (the registry)                               *)

EmptyRegistry ==
    [exc |-> "", page_block |-> "", line_blocks |-> <<>>, word_blocks |-> <<>>,
     table_blocks |-> <<>>, cell_blocks |-> <<>>, merged_cell_blocks |-> <<>>,
     table_title_blocks |-> <<>>, table_footer_blocks |-> <<>>,
     selection_element_blocks |-> <<>>, key_value_set_blocks |-> <<>>,
     layout_blocks |-> <<>>, block_order |-> <<>>]

\* a registry loop that keeps the last of several PAGE blocks
RegisterAnyPage(r, order) ==
    LET block == inp.Blocks[order]
        id == block.Id
        bt == block.BlockType
        Reg(type, q) == IF bt = type THEN DictKeysPut(q, id) ELSE q
    IN  [r EXCEPT
            !.block_order = Put(r.block_order, id, order - 1),
            !.page_block = IF bt = "PAGE" THEN id ELSE @,
            !.line_blocks = Reg("LINE", @),
            !.word_blocks = Reg("WORD", @),
            !.table_blocks = Reg("TABLE", @),
            !.cell_blocks = Reg("CELL", @),
            !.merged_cell_blocks = Reg("MERGED_CELL", @),
            !.table_title_blocks = Reg("TABLE_TITLE", @),
            !.table_footer_blocks = Reg("TABLE_FOOTER", @),
            !.selection_element_blocks = Reg("SELECTION_ELEMENT", @),
            !.key_value_set_blocks = Reg("KEY_VALUE_SET", @),
            !.layout_blocks = IF StartsWithLayout(bt) THEN DictKeysPut(@, id) ELSE @]

\* one iteration of the loop over enumerate(aws_json["Blocks"])
RegisterBlock(r, order) ==
    LET block == inp.Blocks[order]
        id == block.Id
        bt == block.BlockType
        r1 == [r EXCEPT !.block_order = Put(r.block_order, id, order - 1)]
        Reg(type, q) == IF bt = type THEN DictKeysPut(q, id) ELSE q
    IN  IF r.exc # "" THEN r
        ELSE IF bt = "PAGE" /\ r.page_block # ""
        THEN [r1 EXCEPT !.exc = "AssertionError"]
        ELSE [r1 EXCEPT
                !.page_block = IF bt = "PAGE" THEN id ELSE @,
                !.line_blocks = Reg("LINE", @),
                !.word_blocks = Reg("WORD", @),
                !.table_blocks = Reg("TABLE", @),
                !.cell_blocks = Reg("CELL", @),
                !.merged_cell_blocks = Reg("MERGED_CELL", @),
                !.table_title_blocks = Reg("TABLE_TITLE", @),
                !.table_footer_blocks = Reg("TABLE_FOOTER", @),
                !.selection_element_blocks = Reg("SELECTION_ELEMENT", @),
                !.key_value_set_blocks = Reg("KEY_VALUE_SET", @),
                !.layout_blocks = IF StartsWithLayout(bt) THEN DictKeysPut(@, id) ELSE @]

ReadBlocksResult ==
    Fold(RegisterBlock, EmptyRegistry, [i \in 1..Len(inp.Blocks) |-> i])

-----------------------------------------------------------------------------
(* The entity graph.  Objects are held by block Id; a parent_* attribute is *)
(* a Ref, a child list is a sequence of Ids ("" is None).                   *)

\* the geometries of the documents of Spec
GeomA == BoxGeometry(Num(1, 10), Num(1, 10), Num(2, 10), Num(5, 100))
GeomB == BoxGeometry(Num(5, 10), Num(2, 10), Num(5, 10), Num(3, 10))
GeomBad == BoxGeometry(Num(9, 10), Num(1, 10), Num(2, 10), Num(5, 100))
DocGeometries == {GeomA, GeomB, GeomBad}

\* build_aws_geometry for each geometry of DocGeometries; Spec keeps the
\* objects in geo.geometry
GeometryTable == [g \in DocGeometries |-> build_aws_geometry(g)]
GeometryOf(block) == geo.geometry[block.Geometry]

\* TextractBlock.__init__: the exception it raises, "" if none
TextractBlock(aws_block) ==
    IF GeometryOf(aws_block).exc # "" THEN GeometryOf(aws_block).exc
    ELSE IF aws_block.Confidence.d = 0 THEN "TypeError"
    ELSE ""

EmptyGraph ==
    [exc |-> "", words |-> <<>>, lines |-> <<>>,
     tables |-> <<>>, table_objs |-> <<>>,
     values |-> <<>>, value_objs |-> <<>>,
     keys |-> <<>>, key_objs |-> <<>>,
     layouts |-> <<>>, layout_objs |-> <<>>,
     cur |-> [id |-> "", common_cells |-> <<>>, merged_cells |-> <<>>]]

Raise(E, exc) == [E EXCEPT !.exc = exc]

\* obj.field = r for every object of ids
SetAttr(objs, ids, field, r) ==
    [x \in DOMAIN objs |->
        IF Contains(ids, x)
        THEN [f \in DOMAIN objs[x] |-> IF f = field THEN r ELSE objs[x][f]]
        ELSE objs[x]]

\* [d.get(id) for id in ids if d.get(id)]
Present(ids, d) == SelectSeq(ids, LAMBDA id : id \in DOMAIN d)
PresentIn(ids, keyseq) == SelectSeq(ids, LAMBDA id : Contains(keyseq, id))

\* for word in child_words: if not word.parent_line in child_lines: append
ParentLinesOf(words, child_words, child_lines) ==
    Fold(LAMBDA acc, w : IF Contains(acc, words[w].parent_line.id) THEN acc
                         ELSE Append(acc, words[w].parent_line.id),
         child_lines, child_words)

TextractWord(E, id) ==
    IF E.exc # "" THEN E
    ELSE IF TextractBlock(Block(id)) # "" THEN Raise(E, TextractBlock(Block(id)))
    ELSE [E EXCEPT !.words = Put(@, id,
            [parent_line |-> None, parent_cell |-> None, parent_layout |-> None,
             parent_value |-> None, parent_key |-> None])]

TextractLine(E, id) ==
    LET child_words == get_ids_of_child_blocks(Block(id))
    IN  IF E.exc # "" THEN E
        ELSE IF TextractBlock(Block(id)) # "" THEN Raise(E, TextractBlock(Block(id)))
        ELSE IF \E i \in 1..Len(child_words) : child_words[i] \notin DOMAIN E.words
        THEN Raise(E, "AttributeError")
        ELSE [E EXCEPT
                !.words = SetAttr(@, child_words, "parent_line", Ref("line", id)),
                !.lines = Put(@, id,
                    [child_words |-> child_words, parent_cell |-> None,
                     parent_layout |-> None, parent_value |-> None,
                     parent_key |-> None])]

\* TextractSelectionElement.__init__ for each selection element among ids
SelectionElements(ids) ==
    LET sel == PresentIn(ids, reg.selection_element_blocks)
        bad == SelectSeq(sel, LAMBDA id : TextractBlock(Block(id)) # "")
    IN  [ids |-> sel, exc |-> IF Len(bad) = 0 THEN "" ELSE TextractBlock(Block(bad[1]))]

\* TextractCell.__init__: the exception it raises
TextractCell(aws_cell_block) ==
    IF TextractBlock(aws_cell_block) # "" THEN TextractBlock(aws_cell_block)
    ELSE IF \/ aws_cell_block.RowIndex = 0 \/ aws_cell_block.ColumnIndex = 0
            \/ aws_cell_block.RowSpan = 0 \/ aws_cell_block.ColumnSpan = 0
    THEN "KeyError"
    ELSE ""

\* E.cur is the table under construction
TextractCommonCell(E, id) ==
    LET b == Block(id)
        self == CellRef("cell", id, E.cur.id, Len(E.cur.common_cells) + 1)
        child_words == Present(get_ids_of_child_blocks(b), E.words)
        child_lines == ParentLinesOf(E.words, child_words, <<>>)
        sel == SelectionElements(get_ids_of_child_blocks(b))
    IN  IF E.exc # "" THEN E
        ELSE IF TextractCell(b) # "" THEN Raise(E, TextractCell(b))
        ELSE IF Contains(child_lines, "") THEN Raise(E, "AttributeError")
        ELSE IF sel.exc # "" THEN Raise(E, sel.exc)
        ELSE [E EXCEPT
                !.words = SetAttr(@, child_words, "parent_cell", self),
                !.lines = SetAttr(@, child_lines, "parent_cell", self),
                !.cur.common_cells = Append(@,
                    [id |-> id, row_index |-> b.RowIndex - 1,
                     column_index |-> b.ColumnIndex - 1,
                     row_span |-> b.RowSpan, column_span |-> b.ColumnSpan,
                     column_header |-> "COLUMN_HEADER" \in b.EntityTypes,
                     child_words |-> child_words, child_lines |-> child_lines,
                     child_selection_elements |-> sel.ids,
                     parent_merged_cell |-> 0])]

Flatten(ss) == Fold(LAMBDA acc, q : acc \o q, <<>>, ss)

TextractMergedCell(E, id) ==
    LET b == Block(id)
        self == Len(E.cur.merged_cells) + 1
        cells == E.cur.common_cells
        \* for cell_block_id in child_cell_ids: for cell in common_cells: if ids match
        child_cells ==
            Flatten([k \in 1..Len(get_ids_of_child_blocks(b)) |->
                SelectSeq([i \in 1..Len(cells) |-> i],
                          LAMBDA i : cells[i].id = get_ids_of_child_blocks(b)[k])])
    IN  IF E.exc # "" THEN E
        ELSE IF TextractCell(b) # "" THEN Raise(E, TextractCell(b))
        ELSE [E EXCEPT
                !.cur.common_cells =
                    [i \in 1..Len(cells) |->
                        IF Contains(child_cells, i)
                        THEN [cells[i] EXCEPT !.parent_merged_cell = self]
                        ELSE cells[i]],
                !.cur.merged_cells = Append(@,
                    [id |-> id, row_index |-> b.RowIndex - 1,
                     column_index |-> b.ColumnIndex - 1,
                     row_span |-> b.RowSpan, column_span |-> b.ColumnSpan,
                     column_header |-> "COLUMN_HEADER" \in b.EntityTypes,
                     child_cells |-> child_cells,
                     child_words |->
                        Flatten([k \in 1..Len(child_cells) |->
                                    cells[child_cells[k]].child_words]),
                     child_lines |->
                        Flatten([k \in 1..Len(child_cells) |->
                                    cells[child_cells[k]].child_lines]),
                     child_selection_elements |->
                        Flatten([k \in 1..Len(child_cells) |->
                                    cells[child_cells[k]].child_selection_elements])])]

SeqMax(q) == CHOOSE m \in Range(q) : \A x \in Range(q) : x <= m

TextractTable(E, id) ==
    LET b == Block(id)
        E0 == [E EXCEPT !.cur = [id |-> id, common_cells |-> <<>>,
                                 merged_cells |-> <<>>]]
        E1 == Fold(TextractCommonCell, E0,
                   PresentIn(get_ids_of_child_blocks(b), reg.cell_blocks))
        E2 == Fold(TextractMergedCell, E1,
                   PresentIn(get_ids_of_child_blocks(b), reg.merged_cell_blocks))
        cells == E2.cur.common_cells
    IN  IF E.exc # "" THEN E
        ELSE IF TextractBlock(b) # "" THEN Raise(E, TextractBlock(b))
        ELSE IF E2.exc # "" THEN Raise(E, E2.exc)
        ELSE IF Len(cells) = 0 THEN Raise(E, "ValueError")   \* max([])
        ELSE [E2 EXCEPT
                !.cur = EmptyGraph.cur,
                !.tables = DictKeysPut(@, id),
                !.table_objs = Put(@, id,
                    [common_cells |-> cells,
                     merged_cells |-> E2.cur.merged_cells,
                     rows |-> SeqMax([i \in 1..Len(cells) |-> cells[i].row_index]) + 1,
                     columns |-> SeqMax([i \in 1..Len(cells) |-> cells[i].column_index]) + 1,
                     parent_layout |-> None])]

TextractValue(E, id) ==
    LET b == Block(id)
        sel == SelectionElements(get_ids_of_child_blocks(b))
        child_words == Present(get_ids_of_child_blocks(b), E.words)
        child_lines == ParentLinesOf(E.words, child_words, <<>>)
    IN  IF E.exc # "" THEN E
        ELSE IF TextractBlock(b) # "" THEN Raise(E, TextractBlock(b))
        ELSE IF sel.exc # "" THEN Raise(E, sel.exc)
        ELSE IF Contains(child_lines, "") THEN Raise(E, "AttributeError")
        ELSE [E EXCEPT
                !.words = SetAttr(@, child_words, "parent_value", Ref("value", id)),
                !.lines = SetAttr(@, child_lines, "parent_value", Ref("value", id)),
                !.values = DictKeysPut(@, id),
                !.value_objs = Put(@, id,
                    [child_words |-> child_words, child_lines |-> child_lines,
                     child_selection_elements |-> sel.ids,
                     associated_key |-> None])]

TextractKey(E, id) ==
    LET b == Block(id)
        associated_values == ValueIdsOf(b)
        child_words == Present(get_ids_of_child_blocks(b), E.words)
        child_lines == ParentLinesOf(E.words, child_words, <<>>)
    IN  IF E.exc # "" THEN E
        ELSE IF TextractBlock(b) # "" THEN Raise(E, TextractBlock(b))
        ELSE IF \E i \in 1..Len(associated_values) :
                    associated_values[i] \notin DOMAIN E.value_objs
        THEN Raise(E, "AttributeError")
        ELSE IF Contains(child_lines, "") THEN Raise(E, "AttributeError")
        ELSE [E EXCEPT
                !.value_objs = SetAttr(@, associated_values, "associated_key",
                                       Ref("key", id)),
                !.words = SetAttr(@, child_words, "parent_key", Ref("key", id)),
                !.lines = SetAttr(@, child_lines, "parent_key", Ref("key", id)),
                !.keys = DictKeysPut(@, id),
                !.key_objs = Put(@, id,
                    [child_words |-> child_words, child_lines |-> child_lines,
                     associated_values |-> associated_values])]

\* dict(layout_blocks, **tables, **keys, **values).get(id)
TopBlock(E, id) ==
    IF Contains(E.values, id) THEN Ref("value", id)
    ELSE IF Contains(E.keys, id) THEN Ref("key", id)
    ELSE IF Contains(E.tables, id) THEN Ref("table", id)
    ELSE IF Contains(reg.layout_blocks, id) THEN Ref("block", id)
    ELSE None

TextractLayout(E, id) ==
    LET b == Block(id)
        ids == get_ids_of_child_blocks(b)
        child_words == Present(ids, E.words)
        child_lines == ParentLinesOf(E.words, child_words, Present(ids, E.lines))
        top == [i \in 1..Len(ids) |-> TopBlock(E, ids[i])]
    IN  IF E.exc # "" THEN E
        ELSE IF TextractBlock(b) # "" THEN Raise(E, TextractBlock(b))
        ELSE IF Contains(child_lines, "") THEN Raise(E, "AttributeError")
        ELSE [E EXCEPT
                !.words = SetAttr(@, child_words, "parent_layout", Ref("layout", id)),
                !.lines = SetAttr(@, child_lines, "parent_layout", Ref("layout", id)),
                !.layouts = DictKeysPut(@, id),
                !.layout_objs = Put(@, id,
                    [textract_layout_type |-> b.BlockType,
                     block |-> id,
                     child_lines |-> child_lines,
                     child_regions |-> SelectSeq(top, Truthy),
                     parent_layout |-> None])]

\* build recursive layouts: one child of one layout of list(layouts.values())
LinkChildRegion(E, at) ==
    LET layout == at[1]
        i == at[2]
        child == E.layout_objs[layout].child_regions[i]
    IN  IF E.exc # "" THEN E
        ELSE IF child.k = "block"
        THEN IF ~Contains(E.layouts, child.id) THEN Raise(E, "AssertionError")
             ELSE [E EXCEPT
                    !.layout_objs =
                        [SetAttr(@, <<child.id>>, "parent_layout", Ref("layout", layout))
                            EXCEPT ![layout].child_regions[i] = Ref("layout", child.id)],
                    !.layouts = Remove(@, child.id)]
        ELSE IF Contains(E.tables, child.id)
        THEN [E EXCEPT
                !.table_objs = SetAttr(@, <<child.id>>, "parent_layout",
                                       Ref("layout", layout)),
                !.tables = Remove(@, child.id)]
        ELSE E

BuildRecursiveLayoutsResult(E) ==
    Fold(LinkChildRegion, E,
         Flatten([k \in 1..Len(E.layouts) |->
                    [i \in 1..Len(E.layout_objs[E.layouts[k]].child_regions) |->
                        <<E.layouts[k], i>>]]))

\* build dummy lines for dangling words: one word of words.values()
DummyLine(E, word) ==
    LET w == E.words[word]
    IN  IF E.exc # "" THEN E
        ELSE IF Truthy(w.parent_line) \/ Truthy(w.parent_cell) \/ Truthy(w.parent_layout)
        THEN E
        ELSE IF TextractBlock(Block(word)) # "" THEN Raise(E, TextractBlock(Block(word)))
        \* TextractLine(dummy_block, {}): every CHILD id of the word resolves to None
        ELSE IF Len(get_ids_of_child_blocks(Block(word))) > 0
        THEN Raise(E, "AttributeError")
        \* lines.append(dummy): lines is a dict
        ELSE Raise(E, "AttributeError")

\* dummy layouts only for the lines that have no cell, layout, key or value
DummyLayoutUnlessOwned(E, line) ==
    LET l == E.lines[line]
        dummy == line \o "_parent"
    IN  IF E.exc # "" THEN E
        ELSE IF \/ Truthy(l.parent_cell) \/ Truthy(l.parent_layout)
                \/ Truthy(l.parent_key) \/ Truthy(l.parent_value) THEN E
        ELSE IF TextractBlock(Block(line)) # "" THEN Raise(E, TextractBlock(Block(line)))
        ELSE [E EXCEPT
                !.lines = SetAttr(@, <<line>>, "parent_layout", Ref("layout", dummy)),
                !.layouts = DictKeysPut(@, dummy),
                !.layout_objs = Put(@, dummy,
                    [textract_layout_type |-> "LAYOUT_DUMMY",
                     block |-> line,
                     child_lines |-> <<line>>,
                     child_regions |-> <<>>,
                     parent_layout |-> None])]

\* build dummy layouts for dangling lines: one line of lines.values()
DummyLayout(E, line) ==
    LET l == E.lines[line]
        dummy == line \o "_parent"
    IN  IF E.exc # "" THEN E
        ELSE IF Truthy(l.parent_cell) \/ Truthy(l.parent_layout) THEN E
        ELSE IF TextractBlock(Block(line)) # "" THEN Raise(E, TextractBlock(Block(line)))
        ELSE [E EXCEPT
                !.lines = SetAttr(@, <<line>>, "parent_layout", Ref("layout", dummy)),
                !.layouts = DictKeysPut(@, dummy),
                !.layout_objs = Put(@, dummy,
                    [textract_layout_type |-> "LAYOUT_DUMMY",
                     block |-> line,
                     child_lines |-> <<line>>,
                     child_regions |-> <<>>,
                     parent_layout |-> None])]

-----------------------------------------------------------------------------
(* Reading order of the top-level objects.                                  *)

FirstTruthy(refs) ==
    LET t == SelectSeq(refs, Truthy) IN IF Len(t) = 0 THEN None ELSE t[1]

\* cell.parent_table of a parent_cell reference, None for None
ParentTable(cell) == IF Truthy(cell) THEN Ref("table", cell.t) ELSE None

AppendNew(q, r) == IF ~Truthy(r) \/ Contains(q, r) THEN q ELSE Append(q, r)

\* a derive_reading_order that resolves through the word before its line
DeriveReadingOrderWordFirst(E, word_list) ==
    Fold(LAMBDA top, word :
            LET w == E.words[word]
                complex_line_parent ==
                    IF Truthy(w.parent_line)
                    THEN LET l == E.lines[w.parent_line.id]
                         IN  FirstTruthy(<<ParentTable(l.parent_cell), l.parent_value,
                                           l.parent_key, l.parent_layout>>)
                    ELSE None
                complex_word_parent ==
                    FirstTruthy(<<ParentTable(w.parent_cell), w.parent_value,
                                  w.parent_key, w.parent_layout>>)
            IN  AppendNew(AppendNew(top, complex_word_parent), complex_line_parent),
         <<>>, word_list)

derive_reading_order(E, word_list) ==
    Fold(LAMBDA top, word :
            LET w == E.words[word]
                complex_line_parent ==
                    IF Truthy(w.parent_line)
                    THEN LET l == E.lines[w.parent_line.id]
                         IN  FirstTruthy(<<ParentTable(l.parent_cell), l.parent_value,
                                           l.parent_key, l.parent_layout>>)
                    ELSE None
                complex_word_parent ==
                    FirstTruthy(<<ParentTable(w.parent_cell), w.parent_value,
                                  w.parent_key, w.parent_layout>>)
            IN  AppendNew(AppendNew(top, complex_line_parent), complex_word_parent),
         <<>>, word_list)

\* obj.geometry of a layout or table
ObjectGeometry(E, r) ==
    IF r.k = "layout" THEN GeometryOf(Block(E.layout_objs[r.id].block))
    ELSE GeometryOf(Block(r.id))

\* sorted(..., key=aws_block_order): stable insertion sort
RECURSIVE SortedInsert(_, _, _)
SortedInsert(q, x, order) ==
    IF Len(q) = 0 THEN <<x>>
    ELSE IF order[q[Len(q)]] <= order[x] THEN Append(q, x)
    ELSE Append(SortedInsert(SubSeq(q, 1, Len(q) - 1), x, order), q[Len(q)])
SortedBy(q, order) == Fold(LAMBDA acc, x : SortedInsert(acc, x, order), <<>>, q)

InsertAfter(q, pos, x) == SubSeq(q, 1, pos) \o <<x>> \o SubSeq(q, pos + 1, Len(q))

\* one iteration of "for table in tables.values()"; R is [exc, regions]
PlaceTable(E, text_regions, R, table) ==
    LET t == Ref("table", table)
        regions == R.regions
        match == SelectSeq([i \in 1..Len(regions) |-> i],
                    LAMBDA i : ObjectGeometry(E, regions[i]) = ObjectGeometry(E, t))
        text_pos == IndexOf(text_regions, t)
        neighbour == IF text_pos > 1 THEN text_regions[text_pos - 1]
                     ELSE text_regions[text_pos + 1]
    IN  IF R.exc # "" THEN R
        \* try to find matching LAYOUT_TABLE
        ELSE IF Len(match) > 0
        THEN [R EXCEPT !.regions[match[1]] = t]
        \* or re-use prior/next relations in word-based order
        ELSE IF text_pos = 0 THEN [R EXCEPT !.exc = "ValueError"]
        ELSE IF text_pos = 1 /\ Len(text_regions) < 2 THEN [R EXCEPT !.exc = "IndexError"]
        ELSE IF ~Contains(regions, neighbour) THEN [R EXCEPT !.exc = "ValueError"]
        ELSE [R EXCEPT !.regions = InsertAfter(regions, IndexOf(regions, neighbour), t)]

ResolveReadingOrderResult(E) ==
    LET text_regions == derive_reading_order(E, reg.word_blocks)
        layout_regions ==
            [i \in 1..Len(E.layouts) |->
                Ref("layout", SortedBy(E.layouts, reg.block_order)[i])]
        placed == Fold(LAMBDA R, table : PlaceTable(E, text_regions, R, table),
                       [exc |-> "", regions |-> layout_regions], E.tables)
    IN  IF Len(E.layouts) > 0          \* any(layouts)
        THEN [exc |-> placed.exc, text_regions |-> text_regions,
              objects |-> placed.regions, strategy |-> "layout"]
        ELSE [exc |-> "", text_regions |-> text_regions,
              objects |-> text_regions, strategy |-> "words"]

\* f"{prefix}-{textract_layout_type.lower().replace('_','-')}"
LayoutPrefix ==
    [t \in LayoutBlockTypes \cup {"LAYOUT_DUMMY"} |->
        CASE t = "LAYOUT_TITLE" -> "textract-layout-title"
          [] t = "LAYOUT_HEADER" -> "textract-layout-header"
          [] t = "LAYOUT_FOOTER" -> "textract-layout-footer"
          [] t = "LAYOUT_SECTION_HEADER" -> "textract-layout-section-header"
          [] t = "LAYOUT_PAGE_NUMBER" -> "textract-layout-page-number"
          [] t = "LAYOUT_LIST" -> "textract-layout-list"
          [] t = "LAYOUT_FIGURE" -> "textract-layout-figure"
          [] t = "LAYOUT_TABLE" -> "textract-layout-table"
          [] t = "LAYOUT_KEY_VALUE_SET" -> "textract-layout-key-value-set"
          [] t = "LAYOUT_TEXT" -> "textract-layout-text"
          [] t = "LAYOUT_DUMMY" -> "textract-layout-dummy"]

\* obj.prefix
Prefix(E, r) ==
    CASE r.k = "layout" -> LayoutPrefix[E.layout_objs[r.id].textract_layout_type]
      [] r.k = "table" -> "textract-table"
      [] r.k = "key" -> "textract-key"
      [] r.k = "value" -> "textract-value"
      [] r.k = "line" -> "textract-line"
      [] r.k = "word" -> "textract-word"
      [] r.k = "cell" -> "textract-cell"
      [] r.k = "merged" -> "textract-merged-cell"

\* f"{obj.prefix}_{obj.id}"
RegionId(E, r) == Prefix(E, r) \o "_" \o r.id

\* a global reading order whose layouts are ordered groups when they own more
\* than one child
GlobalMemberMultiChild(E, objects, i) ==
    LET obj == objects[i]
        table == Contains(E.tables, obj.id)
        layout == Contains(E.layouts, obj.id)
        lo == E.layout_objs[obj.id]
    IN  IF table
        THEN [tag |-> "UnorderedGroupIndexed", index |-> i - 1,
              id |-> RegionId(E, Ref("table", obj.id)) \o "_reading-order",
              regionRef |-> RegionId(E, Ref("table", obj.id)),
              obj |-> obj, members |-> <<>>]
        ELSE IF layout /\ Len(lo.child_lines) + Len(lo.child_regions) > 1
        THEN [tag |-> "OrderedGroupIndexed", index |-> i - 1,
              id |-> RegionId(E, Ref("layout", obj.id)) \o "_reading-order",
              regionRef |-> RegionId(E, Ref("layout", obj.id)),
              obj |-> obj, members |-> <<>>]
        ELSE [tag |-> "RegionRefIndexed", index |-> i - 1, id |-> "",
              regionRef |-> RegionId(E, obj), obj |-> obj, members |-> <<>>]

\* build global reading order: the member added for one object of the sequence
GlobalMember(E, objects, i) ==
    LET obj == objects[i]
        table == Contains(E.tables, obj.id)
        layout == Contains(E.layouts, obj.id)
        lo == E.layout_objs[obj.id]
    IN  IF table
        THEN [tag |-> "UnorderedGroupIndexed", index |-> i - 1,
              id |-> RegionId(E, Ref("table", obj.id)) \o "_reading-order",
              regionRef |-> RegionId(E, Ref("table", obj.id)),
              obj |-> obj, members |-> <<>>]
        ELSE IF layout /\ (\/ lo.textract_layout_type = "LAYOUT_FIGURE"
                              /\ Len(lo.child_lines) > 0
                           \/ Len(lo.child_regions) > 0)
        THEN [tag |-> "OrderedGroupIndexed", index |-> i - 1,
              id |-> RegionId(E, Ref("layout", obj.id)) \o "_reading-order",
              regionRef |-> RegionId(E, Ref("layout", obj.id)),
              obj |-> obj, members |-> <<>>]
        ELSE [tag |-> "RegionRefIndexed", index |-> i - 1, id |-> "",
              regionRef |-> RegionId(E, obj), obj |-> obj, members |-> <<>>]

GlobalReadingOrder(E, objects) ==
    [i \in 1..Len(objects) |-> GlobalMember(E, objects, i)]

-----------------------------------------------------------------------------
(* The PAGE tree.  page.nodes lists the emitted elements in emission order; *)
(* parent is the position of the enclosing element, 0 for the Page.         *)

DocPageSizes == {<<1000, 2000>>}

\* points_from_aws_geometry for each geometry object; Spec keeps the strings
\* in geo.points
PointsTable(img_width, img_height) ==
    [g \in DocGeometries |->
        IF GeometryTable[g].exc # "" THEN ""
        ELSE points_from_aws_geometry(GeometryTable[g], img_width, img_height)]
PointsOf(block) == geo.points[block.Geometry]

NoRole == [rowIndex |-> -1, columnIndex |-> -1, rowSpan |-> -1, colSpan |-> -1,
           header |-> FALSE]
Element(tag, id, parent, points, src) ==
    [tag |-> tag, id |-> id, parent |-> parent, points |-> points, src |-> src,
     rows |-> -1, columns |-> -1, role |-> NoRole]

AddElement(P, e) == [P EXCEPT !.nodes = Append(@, e), !.ret = Len(P.nodes) + 1]

\* local_reading_orders.get(f"{block.prefix}_{block.id}_reading-order"):
\* the position of the group in the global group, 0 for None
LocalReadingOrder(E, P, block) ==
    LET hits == {i \in 1..Len(P.global) :
                    P.global[i].id = RegionId(E, block) \o "_reading-order"}
    IN  IF hits = {} THEN 0 ELSE CHOOSE i \in hits : \A j \in hits : j <= i

AddRegionRef(P, group, index, regionRef) ==
    [P EXCEPT !.global[group].members =
                Append(@, [index |-> index, regionRef |-> regionRef])]

\* the block a layout takes its geometry from
LayoutBlock(E, id) == Block(E.layout_objs[id].block)

InstantiateWord(E, P, word, parent) ==
    AddElement(P, Element("Word", RegionId(E, Ref("word", word)), parent,
                          PointsOf(Block(word)), Ref("word", word)))

InstantiateLine(E, P, line, parent) ==
    LET P1 == AddElement(P, Element("TextLine", RegionId(E, Ref("line", line)), parent,
                                    PointsOf(Block(line)), Ref("line", line)))
        P2 == Fold(LAMBDA Q, word : InstantiateWord(E, Q, word, P1.ret),
                   P1, E.lines[line].child_words)
    IN  [P2 EXCEPT !.ret = P1.ret]

\* True when the child of a layout may be emitted as a nested text region
IsLayoutObject(r) == r.k = "layout"

RECURSIVE instantiate_pagexml(_, _, _, _)

\* handle figures
InstantiateFigure(E, P, id, parent) ==
    LET lo == E.layout_objs[id]
        group == LocalReadingOrder(E, P, Ref("layout", id))
        P1 == AddElement(P, Element("ImageRegion", RegionId(E, Ref("layout", id)),
                                    parent, PointsOf(LayoutBlock(E, id)),
                                    Ref("layout", id)))
        OneLine(A, line) ==
            LET line_region_id == "textract-line_text-region_" \o line
                Q1 == AddElement(A.P, Element("TextRegion", line_region_id, P1.ret,
                                              PointsOf(Block(line)), Ref("line", line)))
                Q2 == IF group # 0 THEN AddRegionRef(Q1, group, A.n, line_region_id)
                      ELSE Q1
            IN  [P |-> InstantiateLine(E, Q2, line, Q1.ret),
                 n |-> IF group # 0 THEN A.n + 1 ELSE A.n]
        P2 == Fold(OneLine, [P |-> P1, n |-> 0], lo.child_lines).P
    IN  IF Len(lo.child_regions) # 0
        THEN [P2 EXCEPT !.exc = IF IsLayoutObject(lo.child_regions[1])
                                 THEN "AssertionError" ELSE "AttributeError"]
        ELSE [P2 EXCEPT !.ret = P1.ret]

\* a generic layout: a text region with its lines and nested regions
InstantiateLayout(E, P, id, parent) ==
    LET lo == E.layout_objs[id]
        group == LocalReadingOrder(E, P, Ref("layout", id))
        P1 == AddElement(P, Element("TextRegion", RegionId(E, Ref("layout", id)),
                                    parent, PointsOf(LayoutBlock(E, id)),
                                    Ref("layout", id)))
        P2 == Fold(LAMBDA Q, line : InstantiateLine(E, Q, line, P1.ret),
                   P1, lo.child_lines)
        OneRegion(A, child) ==
            IF A.P.exc # "" THEN A
            ELSE IF ~IsLayoutObject(child)
            THEN [A EXCEPT !.P.exc = "AttributeError"]
            ELSE IF E.layout_objs[child.id].textract_layout_type
                        \in {"LAYOUT_FIGURE", "LAYOUT_TABLE"}
            THEN [A EXCEPT !.P.exc = "AssertionError"]
            ELSE LET Q1 == instantiate_pagexml(E, A.P, child, P1.ret)
                 IN  IF Q1.exc # "" THEN [A EXCEPT !.P = Q1]
                     ELSE IF group # 0
                     THEN [P |-> AddRegionRef(Q1, group, A.n, Q1.nodes[Q1.ret].id),
                           n |-> A.n + 1]
                     ELSE [P |-> Q1, n |-> A.n]
        P3 == Fold(OneRegion, [P |-> P2, n |-> 0], lo.child_regions).P
    IN  [P3 EXCEPT !.ret = P1.ret]

\* a table whose merged cells are emitted at every cell they absorb
InstantiateTableRevisiting(E, P, id, parent) ==
    LET to == E.table_objs[id]
        group == LocalReadingOrder(E, P, Ref("table", id))
        P1 == AddElement(P, [Element("TableRegion", RegionId(E, Ref("table", id)),
                                     parent, PointsOf(Block(id)), Ref("table", id))
                                EXCEPT !.rows = to.rows, !.columns = to.columns])
        OneCell(A, i) ==
            LET merged_cell == to.common_cells[i].parent_merged_cell
                cell == IF merged_cell # 0 THEN to.merged_cells[merged_cell]
                        ELSE to.common_cells[i]
                self == IF merged_cell # 0
                        THEN CellRef("merged", cell.id, id, merged_cell)
                        ELSE CellRef("cell", cell.id, id, i)
                suffix == "-" \o ToString(cell.row_index) \o "-"
                              \o ToString(cell.column_index)
                cell_region_id == Prefix(E, self) \o "_text-region_" \o cell.id
                Q1 == AddElement(A.P,
                        [Element("TextRegion", cell_region_id, P1.ret,
                                 PointsOf(Block(cell.id)), self)
                            EXCEPT !.role = [rowIndex |-> cell.row_index,
                                             columnIndex |-> cell.column_index,
                                             rowSpan |-> cell.row_span,
                                             colSpan |-> cell.column_span,
                                             header |-> cell.column_header]])
                Q2 == AddRegionRef(Q1, group, A.n, cell_region_id)
                OneLine(Q, line) ==
                    LET L1 == AddElement(Q,
                                Element("TextLine",
                                        RegionId(E, Ref("line", line)) \o suffix,
                                        Q1.ret, PointsOf(Block(line)), Ref("line", line)))
                    IN  Fold(LAMBDA W, word :
                                AddElement(W,
                                    Element("Word",
                                            RegionId(E, Ref("word", word)) \o suffix,
                                            L1.ret, PointsOf(Block(word)),
                                            Ref("word", word))),
                             L1, E.lines[line].child_words)
            IN  IF A.P.exc # "" THEN A
                \* local_block_reading_order is None
                ELSE IF group = 0 THEN [A EXCEPT !.P.exc = "AttributeError"]
                ELSE [P |-> Fold(OneLine, Q2, cell.child_lines),
                      n |-> A.n + 1,
                      visited_merged_cells |->
                        IF merged_cell # 0 THEN Append(A.visited_merged_cells, merged_cell)
                        ELSE A.visited_merged_cells]
        P2 == Fold(OneCell, [P |-> P1, n |-> 0, visited_merged_cells |-> <<>>],
                   [i \in 1..Len(to.common_cells) |-> i]).P
    IN  [P2 EXCEPT !.ret = P1.ret]

\* a table: a table region with one text region per cell
InstantiateTable(E, P, id, parent) ==
    LET to == E.table_objs[id]
        group == LocalReadingOrder(E, P, Ref("table", id))
        P1 == AddElement(P, [Element("TableRegion", RegionId(E, Ref("table", id)),
                                     parent, PointsOf(Block(id)), Ref("table", id))
                                EXCEPT !.rows = to.rows, !.columns = to.columns])
        OneCell(A, i) ==
            LET merged_cell == to.common_cells[i].parent_merged_cell
                cell == IF merged_cell # 0 THEN to.merged_cells[merged_cell]
                        ELSE to.common_cells[i]
                self == IF merged_cell # 0
                        THEN CellRef("merged", cell.id, id, merged_cell)
                        ELSE CellRef("cell", cell.id, id, i)
                suffix == "-" \o ToString(cell.row_index) \o "-"
                              \o ToString(cell.column_index)
                cell_region_id == Prefix(E, self) \o "_text-region_" \o cell.id
                Q1 == AddElement(A.P,
                        [Element("TextRegion", cell_region_id, P1.ret,
                                 PointsOf(Block(cell.id)), self)
                            EXCEPT !.role = [rowIndex |-> cell.row_index,
                                             columnIndex |-> cell.column_index,
                                             rowSpan |-> cell.row_span,
                                             colSpan |-> cell.column_span,
                                             header |-> cell.column_header]])
                Q2 == AddRegionRef(Q1, group, A.n, cell_region_id)
                OneLine(Q, line) ==
                    LET L1 == AddElement(Q,
                                Element("TextLine",
                                        RegionId(E, Ref("line", line)) \o suffix,
                                        Q1.ret, PointsOf(Block(line)), Ref("line", line)))
                    IN  Fold(LAMBDA W, word :
                                AddElement(W,
                                    Element("Word",
                                            RegionId(E, Ref("word", word)) \o suffix,
                                            L1.ret, PointsOf(Block(word)),
                                            Ref("word", word))),
                             L1, E.lines[line].child_words)
            IN  IF A.P.exc # "" THEN A
                ELSE IF merged_cell # 0 /\ Contains(A.visited_merged_cells, merged_cell)
                THEN A
                \* local_block_reading_order is None
                ELSE IF group = 0 THEN [A EXCEPT !.P.exc = "AttributeError"]
                ELSE [P |-> Fold(OneLine, Q2, cell.child_lines),
                      n |-> A.n + 1,
                      visited_merged_cells |->
                        IF merged_cell # 0 THEN Append(A.visited_merged_cells, merged_cell)
                        ELSE A.visited_merged_cells]
        P2 == Fold(OneCell, [P |-> P1, n |-> 0, visited_merged_cells |-> <<>>],
                   [i \in 1..Len(to.common_cells) |-> i]).P
    IN  [P2 EXCEPT !.ret = P1.ret]

instantiate_pagexml(E, P, block, parent) ==
    IF P.exc # "" THEN P
    ELSE IF block.k = "layout"
            /\ E.layout_objs[block.id].textract_layout_type = "LAYOUT_FIGURE"
    THEN InstantiateFigure(E, P, block.id, parent)
    ELSE IF block.k = "layout"
            /\ E.layout_objs[block.id].textract_layout_type = "LAYOUT_TABLE"
    THEN [P EXCEPT !.ret = 0]          \* we covered tables already
    ELSE IF block.k = "line" THEN InstantiateLine(E, P, block.id, parent)
    ELSE IF block.k = "word" THEN InstantiateWord(E, P, block.id, parent)
    ELSE IF block.k = "layout" THEN InstantiateLayout(E, P, block.id, parent)
    ELSE IF block.k = "table" THEN InstantiateTable(E, P, block.id, parent)
    ELSE [P EXCEPT !.ret = 0]

\* for layout in layouts.values(): ...; for table in tables.values(): ...
AssembleResult(E, global) ==
    LET P0 == [exc |-> "", nodes |-> <<>>, global |-> global, ret |-> 0]
        P1 == Fold(LAMBDA P, id : instantiate_pagexml(E, P, Ref("layout", id), 0),
                   P0, E.layouts)
    IN  Fold(LAMBDA P, id : instantiate_pagexml(E, P, Ref("table", id), 0),
             P1, E.tables)

-----------------------------------------------------------------------------
(* The documents of Spec.                                                   *)

MaxPages == 2        \* a response holds 0..MaxPages PAGE blocks
MaxChildren == 2     \* enumerated CHILD lists of a LINE hold up to MaxChildren ids

Blk(id, type, geometry, children) ==
    [Id |-> id, BlockType |-> type, Geometry |-> geometry, Confidence |-> Num(99, 1),
     Relationships |-> IF Len(children) = 0 THEN <<>>
                       ELSE <<[Type |-> "CHILD", Ids |-> children]>>,
     EntityTypes |-> {}, Text |-> "",
     RowIndex |-> 0, ColumnIndex |-> 0, RowSpan |-> 0, ColumnSpan |-> 0]

PageBlocks(n) == [i \in 1..n |-> Blk("p" \o ToString(i), "PAGE", GeomA, <<>>)]
WordBlock(id, g) == [Blk(id, "WORD", g, <<>>) EXCEPT !.Text = "Hello"]
LineBlock(id, g, kids) == [Blk(id, "LINE", g, kids) EXCEPT !.Text = "Hello"]
CellBlock(id, type, g, row, col, rowspan, colspan, kids) ==
    [Blk(id, type, g, kids) EXCEPT !.RowIndex = row, !.ColumnIndex = col,
                                   !.RowSpan = rowspan, !.ColumnSpan = colspan]
KeyValueBlock(id, g, entity, kids, values) ==
    [Blk(id, "KEY_VALUE_SET", g, kids) EXCEPT
        !.EntityTypes = {entity},
        !.Relationships = @ \o (IF Len(values) = 0 THEN <<>>
                                ELSE <<[Type |-> "VALUE", Ids |-> values]>>)]

\* the WORD blocks w1, w2 that are in ws, in this order
WordBlocks(ws) ==
    (IF "w1" \in ws THEN <<WordBlock("w1", GeomA)>> ELSE <<>>)
    \o (IF "w2" \in ws THEN <<WordBlock("w2", GeomB)>> ELSE <<>>)

\* PAGE, LINE and WORD blocks only; "zz" is the Id of no block
TextDocs ==
    {PageBlocks(np)
     \o <<LineBlock("l1", g, k1)>>
     \o (IF two THEN <<LineBlock("l2", GeomB, <<"w2">>)>> ELSE <<>>)
     \o WordBlocks(ws) :
        np \in 0..MaxPages, g \in {GeomA, GeomBad},
        k1 \in SeqsUpTo({"w1", "w2", "zz"}, MaxChildren),
        two \in BOOLEAN, ws \in SUBSET {"w1", "w2"}}

\* the LINE blocks of the table and key-value documents
LineShapes ==
    [none |-> <<>>,
     one  |-> <<LineBlock("l1", GeomA, <<"w1", "w2">>)>>,
     two  |-> <<LineBlock("l1", GeomA, <<"w1">>), LineBlock("l2", GeomB, <<"w2">>)>>]
LineIds == [none |-> <<>>, one |-> <<"l1">>, two |-> <<"l1", "l2">>]

\* a layout next to the table: none, or its type, geometry and children
TableLayoutChoices ==
    {<<>>} \cup
    {<<type, g, withlines>> :
        type \in {"LAYOUT_TABLE", "LAYOUT_TEXT"}, g \in {GeomA, GeomB},
        withlines \in BOOLEAN}
TableLayout(choice, lines) ==
    IF Len(choice) = 0 THEN <<>>
    ELSE <<Blk("y1", choice[1], choice[2], IF choice[3] THEN lines ELSE <<>>)>>

\* one TABLE t1 (geometry GeomB) with CELLs c1, c2 and, if listed, MERGED_CELL m1
TableDocs ==
    {PageBlocks(1)
     \o LineShapes[ls]
     \o (IF ls = "none" THEN <<>> ELSE WordBlocks({"w1", "w2"}))
     \o <<Blk("t1", "TABLE", GeomB, tk),
          CellBlock("c1", "CELL", GeomA, 1, 1, 1, 1, ck1),
          CellBlock("c2", "CELL", GeomB, 1, 2, 1, 1, ck2)>>
     \o (IF Contains(tk, "m1")
         THEN <<CellBlock("m1", "MERGED_CELL", GeomB, 1, 1, 1, 2, mk)>> ELSE <<>>)
     \o TableLayout(lay, LineIds[ls]) :
        ls \in {"none", "one", "two"},
        tk \in {<<"c1", "c2">>, <<"c1", "c2", "m1">>, <<"c1", "zz", "c2", "m1">>,
                <<"zz">>},
        ck1 \in {<<>>, <<"w1">>, <<"w1", "zz">>},
        ck2 \in {<<>>, <<"w2">>},
        mk \in {<<"c1", "c2">>, <<"c1">>, <<"c2", "zz">>},
        lay \in TableLayoutChoices}

\* two TABLEs t1, t2 of one CELL each, next to or over two lines
TwoTableDocs ==
    {PageBlocks(1)
     \o LineShapes.two
     \o WordBlocks({"w1", "w2"})
     \o <<Blk("t1", "TABLE", GeomB, <<"c1">>),
          CellBlock("c1", "CELL", GeomA, 1, 1, 1, 1, ck1),
          Blk("t2", "TABLE", g2, <<"c2">>),
          CellBlock("c2", "CELL", GeomB, 1, 1, 1, 1, ck2)>> :
        g2 \in {GeomA, GeomB},
        ck1 \in {<<>>, <<"w1">>},
        ck2 \in {<<>>, <<"w2">>}}

\* layouts y1 and y2 over two lines
LayoutDocs ==
    {PageBlocks(1)
     \o <<LineBlock("l1", GeomA, <<"w1">>), LineBlock("l2", GeomB, <<"w2">>)>>
     \o WordBlocks({"w1", "w2"})
     \o <<Blk("y1", t1, GeomA, k1)>>
     \o y2 :
        t1 \in {"LAYOUT_TEXT", "LAYOUT_TABLE", "LAYOUT_FIGURE", "LAYOUT_LIST"},
        k1 \in {<<"l1">>, <<"l1", "y2">>, <<"y2">>, <<"w1">>, <<"l1", "zz">>,
                <<"l1", "l2">>},
        y2 \in {<<>>} \cup {<<Blk("y2", t2, GeomB, k2)>> :
                              t2 \in {"LAYOUT_TEXT", "LAYOUT_FIGURE"},
                              k2 \in {<<"l2">>, <<>>}}}

\* a KEY k1 and a VALUE v1 over one line
KeyValueDocs ==
    {PageBlocks(1)
     \o LineShapes.one
     \o WordBlocks({"w1", "w2"})
     \o <<KeyValueBlock("k1", GeomA, "KEY", kk, kv),
          KeyValueBlock("v1", GeomB, "VALUE", vk, <<>>)>>
     \o lay :
        kk \in {<<"w1">>, <<"w1", "zz">>, <<>>},
        kv \in {<<"v1">>, <<>>, <<"zz">>},
        vk \in {<<"w2">>, <<>>},
        lay \in {<<>>, <<Blk("y1", "LAYOUT_KEY_VALUE_SET", GeomB, <<"k1", "v1">>)>>,
                 <<Blk("y1", "LAYOUT_KEY_VALUE_SET", GeomB, <<"l1">>)>>}}

\* blocks that lack a required key
MalformedDocs ==
    {PageBlocks(1) \o <<LineBlock("l1", GeomA, <<"w1">>),
                        [WordBlock("w1", GeomA) EXCEPT !.Confidence = Absent]>>,
     PageBlocks(1) \o <<Blk("t1", "TABLE", GeomB, <<"c1">>),
                        CellBlock("c1", "CELL", GeomA, 0, 1, 1, 1, <<>>)>>}

\* a LINE l1 whose words are spread over several relationship entries
SplitDocs ==
    {PageBlocks(1)
     \o <<[LineBlock("l1", GeomA, <<>>) EXCEPT !.Relationships = rels]>>
     \o WordBlocks({"w1", "w2"}) :
        rels \in {<<[Type |-> "CHILD", Ids |-> <<"w1">>],
                    [Type |-> "CHILD", Ids |-> <<"w2">>]>>,
                  <<[Type |-> "TITLE", Ids |-> <<"zz">>],
                    [Type |-> "CHILD", Ids |-> <<"w1", "w2">>]>>,
                  <<[Type |-> "TITLE", Ids |-> <<"w1", "w2">>]>>}}

Documents ==
    TextDocs \cup TableDocs \cup TwoTableDocs \cup LayoutDocs \cup KeyValueDocs
        \cup MalformedDocs \cup SplitDocs

\* out_path ("" is None: standard output) and the file found at out_path
NoFile == [exists |-> FALSE, content |-> ""]
OldFile == [exists |-> TRUE, content |-> "old"]
OutputChoices == {<<"out.xml", NoFile>>, <<"out.xml", OldFile>>, <<"", NoFile>>}

EmptyOrder == [text_regions |-> <<>>, objects |-> <<>>, strategy |-> "",
               global |-> <<>>]
EmptyPage == [nodes |-> <<>>, ReadingOrder |-> FALSE]

\* the geometry objects and point strings of the geometries of the response
GeoOfDocuments(img_width, img_height) ==
    [pc |-> "idle", geometry |-> GeometryTable,
     points |-> PointsTable(img_width, img_height)]

\* the image file at img_path: whether it exists, its pixel size, and whether
\* the program has opened it
NoImage == [exists |-> FALSE, width |-> 0, height |-> 0, opened |-> FALSE]
ImageChoices ==
    {NoImage} \cup {[exists |-> TRUE, width |-> sz[1], height |-> sz[2],
                     opened |-> FALSE] : sz \in DocPageSizes}

\* the responses given to convert_file and to the command line
EntryDocs ==
    {PageBlocks(1) \o <<LineBlock("l1", g, <<"w1">>)>> \o WordBlocks({"w1"}) :
        g \in {GeomA, GeomBad}}

\* an int option of the command line: absent (None) or its value
NoOption == [given |-> FALSE, value |-> 0]
Option(v) == [given |-> TRUE, value |-> v]
IsSet(opt) == opt.given /\ opt.value # 0
WidthOptions == {NoOption, Option(0)} \cup {Option(sz[1]) : sz \in DocPageSizes}
HeightOptions == {NoOption, Option(0)} \cup {Option(sz[2]) : sz \in DocPageSizes}
OutputFileOptions == {<<"-", NoFile>>, <<"out.xml", NoFile>>, <<"out.xml", OldFile>>}

\* the tables of Spec before the image size is known
GeoOfGeometries == [pc |-> "idle", geometry |-> GeometryTable, points |-> <<>>]

\* nothing has been read, built or emitted
Fresh ==
    /\ reg = EmptyRegistry
    /\ ent = EmptyGraph
    /\ ro = EmptyOrder
    /\ page = EmptyPage
    /\ err = ""

\* convert_file_without_image(json_path, img_path, img_width, img_height, out_path)
InitWithoutImage ==
    /\ pc = "start"
    /\ \E doc \in Documents, sz \in DocPageSizes, out \in OutputChoices,
          image \in ImageChoices :
        /\ image.exists => doc \in EntryDocs
        /\ geo = GeoOfDocuments(sz[1], sz[2])
        /\ inp = [Blocks |-> doc, img_width |-> sz[1], img_height |-> sz[2],
                  out_path |-> out[1]]
        /\ fs = [file |-> out[2], stdout |-> <<>>, image |-> image]

\* convert_file(json_path, img_path, out_path)
InitConvertFile ==
    /\ pc = "convert_file"
    /\ geo = GeoOfGeometries
    /\ \E doc \in EntryDocs, out \in OutputChoices, image \in ImageChoices :
        /\ inp = [Blocks |-> doc, img_width |-> 0, img_height |-> 0,
                  out_path |-> out[1]]
        /\ fs = [file |-> out[2], stdout |-> <<>>, image |-> image]

\* cli(output_file, aws_json_file, image_file, image_width, image_height)
InitCli ==
    /\ pc = "cli"
    /\ geo = GeoOfGeometries
    /\ \E doc \in EntryDocs, out \in OutputFileOptions, image \in ImageChoices,
          w \in WidthOptions, h \in HeightOptions :
        /\ inp = [Blocks |-> doc, img_width |-> 0, img_height |-> 0,
                  out_path |-> "", output_file |-> out[1],
                  image_width |-> w, image_height |-> h]
        /\ fs = [file |-> out[2], stdout |-> <<>>, image |-> image]

Init == (InitWithoutImage \/ InitConvertFile \/ InitCli) /\ Fresh

-----------------------------------------------------------------------------
(* The entry points: the command line and convert_file.                     *)

\* an entry point that ends with an exception
EntryRaising(exc) ==
    /\ pc' = "raised" /\ err' = exc
    /\ UNCHANGED <<geo, inp, reg, ent, ro, page, fs>>

\* the call convert_file_without_image(json, img, w, h, out_path)
CallWithoutImage(w, h, out_path) ==
    /\ pc' = "start"
    /\ geo' = GeoOfDocuments(w, h)
    /\ inp' = [Blocks |-> inp.Blocks, img_width |-> w, img_height |-> h,
               out_path |-> out_path]
    /\ UNCHANGED <<reg, ent, ro, page, err>>

\* a convert_file that passes the image's height as width and its width as height
ConvertFileTransposed ==
    /\ pc = "convert_file"
    /\ IF ~fs.image.exists THEN EntryRaising("FileNotFoundError")
       ELSE /\ fs' = [fs EXCEPT !.image.opened = TRUE]
            /\ CallWithoutImage(fs.image.height, fs.image.width, inp.out_path)

\* Image.open(img_path); width, height; convert_file_without_image(...)
convert_file ==
    /\ pc = "convert_file"
    /\ IF ~fs.image.exists THEN EntryRaising("FileNotFoundError")
       ELSE /\ fs' = [fs EXCEPT !.image.opened = TRUE]
            /\ CallWithoutImage(fs.image.width, fs.image.height, inp.out_path)

\* the assertion, the "-" of --output-file, and the dispatch
cli ==
    /\ pc = "cli"
    /\ LET image_width == inp.image_width
           image_height == inp.image_height
           output_file == IF inp.output_file = "-" THEN "" ELSE inp.output_file
       IN  IF ~((IsSet(image_width) /\ IsSet(image_height)) \/ fs.image.exists)
           THEN EntryRaising("AssertionError")
           ELSE IF IsSet(image_width) /\ IsSet(image_height)
           THEN /\ CallWithoutImage(image_width.value, image_height.value, output_file)
                /\ UNCHANGED fs
           ELSE /\ pc' = "convert_file"
                /\ inp' = [Blocks |-> inp.Blocks, img_width |-> 0, img_height |-> 0,
                           out_path |-> output_file]
                /\ UNCHANGED <<geo, reg, ent, ro, page, fs, err>>

-----------------------------------------------------------------------------
(* convert_file_without_image, phase by phase.  An exception ends the call: *)
(* pc = "raised" and err names it.                                          *)

Raising(exc) == /\ pc' = "raised" /\ err' = exc

\* a conversion that opens out_path for writing before it reads the blocks
ReadBlocksOpeningOutput ==
    /\ pc = "start"
    /\ fs' = [fs EXCEPT !.stdout = Append(@, "beginning converting"),
                        !.file = IF inp.out_path = "" THEN @
                                 ELSE [exists |-> TRUE, content |-> ""]]
    /\ LET r == ReadBlocksResult
       IN  IF r.exc # "" THEN Raising(r.exc) /\ UNCHANGED reg
           ELSE pc' = "read" /\ reg' = r /\ UNCHANGED err
    /\ UNCHANGED <<geo, inp, ent, ro, page>>

\* print(f"beginning converting ..."), json.load, and the loop over Blocks
ReadBlocks ==
    /\ pc = "start"
    /\ fs' = [fs EXCEPT !.stdout = Append(@, "beginning converting")]
    /\ LET r == ReadBlocksResult
       IN  IF r.exc # "" THEN Raising(r.exc) /\ UNCHANGED reg
           ELSE pc' = "read" /\ reg' = r /\ UNCHANGED err
    /\ UNCHANGED <<geo, inp, ent, ro, page>>

\* a phase that builds part of the entity graph
GraphPhase(from, to, E) ==
    /\ pc = from
    /\ IF E.exc # "" THEN Raising(E.exc) /\ UNCHANGED ent
       ELSE pc' = to /\ ent' = E /\ UNCHANGED err
    /\ UNCHANGED <<geo, inp, ro, page, fs>>

BuildWords ==
    /\ GraphPhase("read", "words", Fold(TextractWord, ent, reg.word_blocks))
    /\ UNCHANGED reg

BuildLines ==
    /\ GraphPhase("words", "lines", Fold(TextractLine, ent, reg.line_blocks))
    /\ UNCHANGED reg

BuildTables ==
    /\ GraphPhase("lines", "tables", Fold(TextractTable, ent, reg.table_blocks))
    /\ UNCHANGED reg

BuildValues ==
    /\ GraphPhase("tables", "values",
            Fold(TextractValue, ent,
                 SelectSeq(reg.key_value_set_blocks,
                           LAMBDA id : "VALUE" \in Block(id).EntityTypes)))
    /\ UNCHANGED reg

BuildKeys ==
    /\ GraphPhase("values", "keys",
            Fold(TextractKey, ent,
                 SelectSeq(reg.key_value_set_blocks,
                           LAMBDA id : "KEY" \in Block(id).EntityTypes)))
    /\ UNCHANGED reg

BuildLayouts ==
    /\ GraphPhase("keys", "layouts", Fold(TextractLayout, ent, reg.layout_blocks))
    /\ UNCHANGED reg

BuildRecursiveLayouts ==
    /\ GraphPhase("layouts", "linked", BuildRecursiveLayoutsResult(ent))
    /\ UNCHANGED reg

BuildDummyLines ==
    /\ GraphPhase("linked", "dummy_lines", Fold(DummyLine, ent, reg.word_blocks))
    /\ UNCHANGED reg

\* block_order[dummy.id] = block_order[line.id] for the dummy layouts of E
WithDummyOrder(order, E) ==
    [id \in DOMAIN order \cup Range(E.layouts) |->
        IF id \in DOMAIN order THEN order[id] ELSE order[E.layout_objs[id].block]]

BuildDummyLayouts ==
    /\ GraphPhase("dummy_lines", "dummy_layouts",
                  Fold(DummyLayout, ent, reg.line_blocks))
    /\ reg' = IF pc' = "raised" THEN reg
              ELSE [reg EXCEPT !.block_order = WithDummyOrder(@, ent')]

ResolveReadingOrder ==
    /\ pc = "dummy_layouts"
    /\ LET r == ResolveReadingOrderResult(ent)
       IN  IF r.exc # "" THEN Raising(r.exc) /\ UNCHANGED ro
           ELSE /\ pc' = "ordered"
                /\ ro' = [ro EXCEPT !.text_regions = r.text_regions,
                                    !.objects = r.objects,
                                    !.strategy = r.strategy]
                /\ UNCHANGED err
    /\ UNCHANGED <<geo, inp, reg, ent, page, fs>>

\* build PRIMAPageXML, build global reading order
BuildGlobalReadingOrder ==
    /\ pc = "ordered"
    /\ pc' = "grouped"
    /\ ro' = [ro EXCEPT !.global = GlobalReadingOrder(ent, ro.objects)]
    /\ UNCHANGED <<geo, inp, reg, ent, page, fs, err>>

Assemble ==
    /\ pc = "grouped"
    /\ LET P == AssembleResult(ent, ro.global)
       IN  IF P.exc # "" THEN Raising(P.exc) /\ UNCHANGED <<ro, page>>
           ELSE /\ pc' = "assembled"
                /\ ro' = [ro EXCEPT !.global = P.global]
                /\ page' = [page EXCEPT !.nodes = P.nodes]
                /\ UNCHANGED err
    /\ UNCHANGED <<geo, inp, reg, ent, fs>>

\* set_ReadingOrder, to_xml, and the write to standard output or to out_path
WriteOutput ==
    /\ pc = "assembled"
    /\ pc' = "done"
    /\ page' = [page EXCEPT !.ReadingOrder = TRUE]
    /\ fs' = IF inp.out_path = ""
             THEN [fs EXCEPT !.stdout = Append(@, "result")]
             ELSE [fs EXCEPT !.file = [exists |-> TRUE, content |-> "result"],
                             !.stdout = Append(@, "finished writing")]
    /\ UNCHANGED <<geo, inp, reg, ent, ro, err>>

Next ==
    \/ cli
    \/ convert_file
    \/ ReadBlocks
    \/ BuildWords
    \/ BuildLines
    \/ BuildTables
    \/ BuildValues
    \/ BuildKeys
    \/ BuildLayouts
    \/ BuildRecursiveLayouts
    \/ BuildDummyLines
    \/ BuildDummyLayouts
    \/ ResolveReadingOrder
    \/ BuildGlobalReadingOrder
    \/ Assemble
    \/ WriteOutput

Spec == Init /\ [][Next]_vars

-----------------------------------------------------------------------------
(* Properties of the geometry classes (SpecGeom).                           *)

\* the decimal literal x, read exactly: absent (-1), negative, or above 1
OutsideUnit(x) == x.d = 0 \/ x.n < 0 \/ x.n > x.d
\* a + b > 1 for two literals inside [0, 1], read exactly
SumExceedsOne(a, b) == a.n * b.d + b.n * a.d > a.d * b.d

BoxOutOfBounds(b) ==
    \/ OutsideUnit(b.Left) \/ OutsideUnit(b.Top)
    \/ OutsideUnit(b.Width) \/ OutsideUnit(b.Height)
    \/ SumExceedsOne(b.Left, b.Width)
    \/ SumExceedsOne(b.Top, b.Height)

PolygonOutOfBounds(pts) ==
    \/ Len(pts) < 3
    \/ \E i \in 1..Len(pts) : OutsideUnit(pts[i].X) \/ OutsideUnit(pts[i].Y)

\* the geometry that build_aws_geometry constructs from geo.json is out of bounds
JsonOutOfBounds ==
    IF geo.json.Polygon.present THEN PolygonOutOfBounds(geo.json.Polygon.pts)
    ELSE BoxOutOfBounds(geo.json.BoundingBox)

\* a constructed geometry object holds only values within its bounds
ObjectWithinBounds(g) ==
    IF g.kind = "TextractBoundingBox"
    THEN /\ FloatLeOne(g.left) /\ FloatLeOne(g.top)
         /\ FloatLeOne(g.width) /\ FloatLeOne(g.height)
         /\ FloatLeOne(FloatAdd(g.left, g.width))
         /\ FloatLeOne(FloatAdd(g.top, g.height))
    ELSE /\ g.kind = "TextractPolygon"
         /\ Len(g.points) >= 3
         /\ \A i \in 1..Len(g.points) :
                FloatLeOne(g.points[i].x) /\ FloatLeOne(g.points[i].y)

LimbsLe(a, b) ==
    LET n == Max(Len(a), Len(b))
        diff == {j \in 1..n : Limb(a, j) # Limb(b, j)}
    IN  \/ diff = {}
        \/ LET j == CHOOSE k \in diff : \A m \in diff : m <= k
           IN  Limb(a, j) < Limb(b, j)
IntLimbs(c) == [j \in 1..(FracLimbs + 1) |-> IF j = FracLimbs + 1 THEN c ELSE 0]
\* c is the least integer that is >= the double v
IsCeiling(c, v) ==
    /\ LimbsLe(v, IntLimbs(c))
    /\ c = 0 \/ ~LimbsLe(v, IntLimbs(c - 1))

-----------------------------------------------------------------------------
(* Properties of the conversion (Spec).                                     *)

Terminal == pc \in {"done", "raised"}
IdsOfType(type) ==
    {inp.Blocks[i].Id : i \in {j \in 1..Len(inp.Blocks) : inp.Blocks[j].BlockType = type}}
PageCount ==
    Cardinality({i \in 1..Len(inp.Blocks) : inp.Blocks[i].BlockType = "PAGE"})
Nodes(tag) == {i \in 1..Len(page.nodes) : page.nodes[i].tag = tag}
ChildNodes(i, tag) == {j \in Nodes(tag) : page.nodes[j].parent = i}
WordNodes(word) == {i \in Nodes("Word") : page.nodes[i].src = Ref("word", word)}

\* the places <<block, position>> where a LINE block lists word as CHILD
LinePlaces(word) ==
    {at \in (1..Len(inp.Blocks)) \X (1..Len(inp.Blocks)) :
        /\ inp.Blocks[at[1]].BlockType = "LINE"
        /\ at[2] <= Len(get_ids_of_child_blocks(inp.Blocks[at[1]]))
        /\ get_ids_of_child_blocks(inp.Blocks[at[1]])[at[2]] = word}

\* C1: on every input that is converted, every WORD block is the source of
\* exactly one Word node of the output (none omitted, none duplicated); stated
\* for the inputs with one PAGE in which every WORD is listed by exactly one
\* LINE, exactly once.
C1_EveryWordEmittedOnce ==
    (pc = "done" /\ PageCount = 1
                 /\ \A word \in IdsOfType("WORD") : Cardinality(LinePlaces(word)) = 1)
        => \A word \in IdsOfType("WORD") : Cardinality(WordNodes(word)) = 1

\* the WORD blocks that no block lists in a relationship
OrphanWords ==
    {word \in IdsOfType("WORD") :
        \A i \in 1..Len(inp.Blocks) :
            \A r \in 1..Len(inp.Blocks[i].Relationships) :
                ~Contains(inp.Blocks[i].Relationships[r].Ids, word)}

\* one PAGE and otherwise LINE and WORD blocks, every block constructible,
\* every CHILD id of a LINE the Id of a WORD
WellFormedText ==
    /\ PageCount = 1
    /\ \A i \in 1..Len(inp.Blocks) :
        /\ inp.Blocks[i].BlockType \in {"PAGE", "LINE", "WORD"}
        /\ TextractBlock(inp.Blocks[i]) = ""
        /\ inp.Blocks[i].BlockType = "LINE" =>
              Range(get_ids_of_child_blocks(inp.Blocks[i])) \subseteq IdsOfType("WORD")

\* word is emitted once, alone in a text line that is alone in a top-level
\* text region
WrappedAlone(word) ==
    \E w \in Nodes("Word"), l \in Nodes("TextLine"), r \in Nodes("TextRegion") :
        /\ WordNodes(word) = {w}
        /\ page.nodes[w].parent = l /\ ChildNodes(l, "Word") = {w}
        /\ page.nodes[l].parent = r /\ ChildNodes(r, "TextLine") = {l}
        /\ page.nodes[r].parent = 0

\* C2: a WORD block that no LINE (and no other block) references as CHILD does
\* not abort the conversion; it is emitted exactly once, as the only word of a
\* synthesized line inside a synthesized text region.
C2_OrphanWordWrapped ==
    (Terminal /\ WellFormedText) =>
        \A word \in OrphanWords : pc = "done" /\ WrappedAlone(word)

ScenarioA ==
    <<Blk("p1", "PAGE", BoxGeometry(Num(1, 10), Num(1, 10), Num(2, 10), Num(5, 100)),
          <<>>),
      [Blk("l1", "LINE", BoxGeometry(Num(1, 10), Num(1, 10), Num(2, 10), Num(5, 100)),
           <<"w1">>) EXCEPT !.Text = "Hello"],
      [Blk("w1", "WORD", BoxGeometry(Num(1, 10), Num(1, 10), Num(2, 10), Num(5, 100)),
           <<>>) EXCEPT !.Text = "Hello"]>>

\* C3: scenario A (PAGE, LINE "Hello" with CHILD WORD "Hello", every bounding
\* box Left 0.1, Top 0.1, Width 0.2, Height 0.05, page 1000x2000) yields one
\* text region holding one line holding one word, all three with the points
\* 100,200 300,200 300,300 100,300.
C3_ScenarioA ==
    (Terminal /\ inp.Blocks = ScenarioA
              /\ inp.img_width = 1000 /\ inp.img_height = 2000) =>
        /\ pc = "done"
        /\ Len(page.nodes) = 3
        /\ \E r \in Nodes("TextRegion"), l \in Nodes("TextLine"), w \in Nodes("Word") :
            /\ page.nodes[r].parent = 0
            /\ page.nodes[l].parent = r
            /\ page.nodes[w].parent = l
        /\ \A i \in 1..Len(page.nodes) :
            page.nodes[i].points = "100,200 300,200 300,300 100,300"

ScenarioB ==
    <<Blk("p1", "PAGE", GeomA, <<>>),
      Blk("t1", "TABLE", GeomB, <<"c1", "c2">>),
      CellBlock("c1", "CELL", GeomA, 1, 1, 1, 1, <<>>),
      CellBlock("c2", "CELL", GeomB, 1, 2, 1, 1, <<>>)>>

\* C4: scenario B (a TABLE whose CHILDren are two CELLs, first row, first and
\* second column) is converted to one table region with columns=2 and rows=1
\* holding two cell regions tagged row 0 column 0 and row 0 column 1.
C4_ScenarioB ==
    (Terminal /\ inp.Blocks = ScenarioB) =>
        /\ pc = "done"
        /\ \E t \in Nodes("TableRegion") :
            /\ Nodes("TableRegion") = {t}
            /\ page.nodes[t].columns = 2 /\ page.nodes[t].rows = 1
            /\ Cardinality(ChildNodes(t, "TextRegion")) = 2
            /\ {<<page.nodes[c].role.rowIndex, page.nodes[c].role.columnIndex>> :
                    c \in ChildNodes(t, "TextRegion")} = {<<0, 0>>, <<0, 1>>}

\* the regions emitted directly under the Page
TopLevelNodes == {i \in 1..Len(page.nodes) : page.nodes[i].parent = 0}

\* C5: the members of the global reading-order group carry the indices
\* 0..n-1, each once, n being the number of top-level regions, and they
\* reference each top-level region exactly once.
C5_GlobalIndicesDense ==
    pc = "done" =>
        LET n == Cardinality(TopLevelNodes)
            members == 1..Len(ro.global)
        IN  /\ Len(ro.global) = n
            /\ {ro.global[i].index : i \in members} = 0..(n - 1)
            /\ {ro.global[i].regionRef : i \in members}
                    = {page.nodes[j].id : j \in TopLevelNodes}
            /\ \A i, j \in members :
                    ro.global[i].regionRef = ro.global[j].regionRef => i = j

\* the CHILD ids of a block that name a block of one of the types
ResolvableChildren(block, types) ==
    SelectSeq(get_ids_of_child_blocks(block),
              LAMBDA id : \E i \in 1..Len(inp.Blocks) :
                            /\ inp.Blocks[i].Id = id
                            /\ inp.Blocks[i].BlockType \in types)

\* C6, for the LINE blocks: when every LINE block is constructible, building
\* the lines does not abort, and each line keeps exactly those CHILD ids that
\* name a WORD block, in the order listed.
C6_DanglingLineChildrenDropped ==
    [][(pc = "words" /\ \A line \in IdsOfType("LINE") : TextractBlock(Block(line)) = "")
          => /\ pc' = "lines"
             /\ \A line \in IdsOfType("LINE") :
                    ent'.lines[line].child_words
                        = ResolvableChildren(Block(line), {"WORD"})]_vars

\* C9 as the code has it: registering the blocks fails with an assertion
\* error when the Blocks list holds two or more PAGE blocks, and succeeds
\* otherwise, also when it holds no PAGE block.
C9_DuplicatePageFatal ==
    [][pc = "start" =>
          IF PageCount >= 2 THEN pc' = "raised" /\ err' = "AssertionError"
          ELSE pc' = "read" /\ err' = ""]_vars

\* two PAGE blocks: the conversion stopped before the registry was complete
C9_Witness ==
    /\ pc = "raised" /\ err = "AssertionError"
    /\ PageCount = 2
    /\ reg = EmptyRegistry

\* C9: the conversion fails both when the Blocks list contains no PAGE block
\* and when it contains two or more.
C9_ExactlyOnePage == (Terminal /\ PageCount # 1) => pc = "raised"

\* C10: no partial output: the file at out_path is created or modified only
\* by the step that completes the conversion, after which nothing follows; a
\* conversion that raises in any phase leaves the file as it found it.
C10_NoPartialOutput ==
    [][/\ fs'.file # fs.file => pc = "assembled" /\ pc' = "done"
       /\ pc \in {"done", "raised"} => pc' = pc]_vars

\* a conversion to out.xml that raised during assembly, after the reading
\* order was built; the file found there is as it was
C10_Witness ==
    /\ pc = "raised" /\ err = "AttributeError"
    /\ Len(ro.global) > 0
    /\ inp.out_path = "out.xml"
    /\ fs.file = OldFile


-----------------------------------------------------------------------------
(* Properties of the entry points (Spec).                                   *)

\* C11: convert_file(json, img, out) continues exactly as
\* convert_file_without_image(json, img, w, h, out) begins when w and h are
\* the pixel width and height of the image at img: same Blocks, same sizes
\* and point strings, same out_path, nothing read, built or written yet.
\* The image gives the call its width and height and nothing else, so both
\* calls produce the same document.
C11_ConvertFileIsWithoutImage ==
    [][(pc = "convert_file" /\ pc' = "start") =>
          /\ inp' = [Blocks |-> inp.Blocks, img_width |-> fs.image.width,
                     img_height |-> fs.image.height, out_path |-> inp.out_path]
          /\ geo' = GeoOfDocuments(fs.image.width, fs.image.height)
          /\ fs'.file = fs.file /\ fs'.stdout = fs.stdout
          /\ fs'.image.width = fs.image.width
          /\ fs'.image.height = fs.image.height
          /\ Fresh']_vars

\* a document written by a conversion that opened the image for its size
C11_Witness ==
    /\ pc = "done"
    /\ fs.image.opened
    /\ inp.img_width = fs.image.width /\ inp.img_height = fs.image.height
    /\ fs.image.width # fs.image.height
    /\ Len(page.nodes) > 0

-----------------------------------------------------------------------------
(* Properties of the reading order (Spec).                                  *)

HasLayoutBlocks(blocks) ==
    \E i \in 1..Len(blocks) : StartsWithLayout(blocks[i].BlockType)
WithoutLayoutBlocks(blocks) ==
    SelectSeq(blocks, LAMBDA block : ~StartsWithLayout(block.BlockType))
\* the responses that are a response with LAYOUT_* blocks, those removed
StrippedDocuments ==
    {WithoutLayoutBlocks(doc) : doc \in {d \in Documents : HasLayoutBlocks(d)}}

\* C12: round-trip ordering: a response that had LAYOUT_* blocks, converted
\* with all of them removed, is converted successfully (stated for the
\* responses that keep one PAGE, LINE and WORD blocks only, every WORD in some
\* LINE), and whenever it is converted its top-level sequence is the one the
\* word-order fallback gives, which holds the tables, keys and values that
\* own words.
C12_RoundTripOrdering ==
    /\ (Terminal /\ inp.Blocks \in StrippedDocuments
                 /\ WellFormedText /\ OrphanWords = {}) => pc = "done"
    /\ (pc = "done" /\ inp.Blocks \in StrippedDocuments)
          => ro.objects = ro.text_regions

-----------------------------------------------------------------------------
(* Properties of the entity graph (Spec).                                   *)

\* the entity graph is complete: the dummy layouts have been built
GraphBuilt == pc \in {"dummy_layouts", "ordered", "grouped", "assembled", "done"}

ParentFields ==
    {"parent_line", "parent_cell", "parent_layout", "parent_value", "parent_key"}
ParentsOfWord(word) == {f \in ParentFields : Truthy(ent.words[word][f])}
\* the layouts whose child_lines hold line / whose child_regions hold region
LayoutsListingLine(line) ==
    {y \in DOMAIN ent.layout_objs : Contains(ent.layout_objs[y].child_lines, line)}
LayoutsListingRegion(id) ==
    {y \in DOMAIN ent.layout_objs :
        \E i \in 1..Len(ent.layout_objs[y].child_regions) :
            ent.layout_objs[y].child_regions[i].id = id}
\* the cells <<table, index>> whose child_lines hold line
CellsListingLine(line) ==
    {c \in UNION {{<<t, i>> : i \in 1..Len(ent.table_objs[t].common_cells)} :
                    t \in DOMAIN ent.table_objs} :
        Contains(ent.table_objs[c[1]].common_cells[c[2]].child_lines, line)}

\* C13: once the entity graph is built no entity has more than one parent:
\* every Word has at most one non-null parent among line, cell, layout, value
\* and key; every Line is in the child_lines of at most one layout or cell;
\* every Table and Layout is in the child_regions of at most one layout.
C13_SingleParent ==
    GraphBuilt =>
        /\ \A word \in DOMAIN ent.words : Cardinality(ParentsOfWord(word)) <= 1
        /\ \A line \in DOMAIN ent.lines :
              Cardinality(LayoutsListingLine(line))
                + Cardinality(CellsListingLine(line)) <= 1
        /\ \A id \in DOMAIN ent.layout_objs \cup DOMAIN ent.table_objs :
              Cardinality(LayoutsListingRegion(id)) <= 1

-----------------------------------------------------------------------------
(* Properties of the command line (Spec).                                   *)

BothGiven == inp.image_width.given /\ inp.image_height.given
StdoutMarker == IF inp.output_file = "-" THEN "" ELSE inp.output_file

\* C14: the command line takes an existing image file or --image-width and
\* --image-height.  With both options given it calls the conversion with
\* their values and never opens the image, which need not exist; without
\* both it needs the image to exist and takes the size from it; with neither
\* it fails before the conversion starts; the output file "-" makes the
\* conversion write the document to standard output and to no file.
C14_CommandLine ==
    [][/\ (pc = "cli" /\ BothGiven) =>
            /\ pc' = "start"
            /\ inp'.img_width = inp.image_width.value
            /\ inp'.img_height = inp.image_height.value
            /\ inp'.out_path = StdoutMarker
            /\ fs' = fs
       /\ (pc = "cli" /\ ~BothGiven /\ fs.image.exists) =>
            /\ pc' = "convert_file"
            /\ inp'.out_path = StdoutMarker
            /\ fs' = fs
       /\ (pc = "cli" /\ ~BothGiven /\ ~fs.image.exists) =>
            /\ pc' = "raised"
            /\ fs' = fs
       /\ fs'.image # fs.image =>
            /\ pc = "convert_file" /\ pc' = "start"
            /\ inp'.img_width = fs.image.width
            /\ inp'.img_height = fs.image.height
       /\ (pc = "assembled" /\ inp.out_path = "") =>
            /\ fs'.file = fs.file
            /\ fs'.stdout = Append(fs.stdout, "result")]_vars

-----------------------------------------------------------------------------
(* Properties of the order strategies (Spec).                               *)

\* the top-level order has been resolved
Resolved == pc \in {"ordered", "grouped", "assembled", "done"}

\* one PAGE, and every WORD listed exactly once, by exactly one LINE
OrdinaryText ==
    /\ PageCount = 1
    /\ IdsOfType("WORD") # {}
    /\ \A word \in IdsOfType("WORD") : Cardinality(LinePlaces(word)) = 1

\* C15: the layout-order strategy is used exactly when the response holds a
\* LAYOUT_* block; for a response without one the resolved top-level sequence
\* is the sequence derive_reading_order returned.  Stated for the responses
\* with one PAGE in which every WORD is in exactly one LINE.
C15_StrategyByLayoutBlocks ==
    (Resolved /\ OrdinaryText) =>
        /\ ro.strategy = "layout" <=> HasLayoutBlocks(inp.Blocks)
        /\ ~HasLayoutBlocks(inp.Blocks) => ro.objects = ro.text_regions

\* sorted(layouts.values(), key=aws_block_order), as references
SortedLayouts ==
    [i \in 1..Len(ent.layouts) |->
        Ref("layout", SortedBy(ent.layouts, reg.block_order)[i])]
\* table is in the resolved sequence and no layout has its geometry
Spliced(t) ==
    /\ Contains(ro.objects, t)
    /\ \A i \in 1..Len(SortedLayouts) :
          ObjectGeometry(ent, SortedLayouts[i]) # ObjectGeometry(ent, t)

\* C16: in the layout-order strategy a Table without geometry-matching layout
\* stands immediately after the entity that precedes it in the fallback
\* sequence or, when it is first there, immediately before the entity that
\* succeeds it there; the other entries keep their order.
C16_TableSpliced ==
    (Resolved /\ ro.strategy = "layout") =>
        \A table \in Range(ent.tables) :
            LET t == Ref("table", table)
                text_pos == IndexOf(ro.text_regions, t)
                pos == IndexOf(ro.objects, t)
            IN  Spliced(t) =>
                  /\ text_pos > 1 =>
                        pos > 1 /\ ro.objects[pos - 1] = ro.text_regions[text_pos - 1]
                  /\ text_pos = 1 =>
                        /\ pos < Len(ro.objects)
                        /\ ro.objects[pos + 1] = ro.text_regions[text_pos + 1]
                  /\ SelectSeq(ro.objects, LAMBDA r : r # t) = SortedLayouts

\* C17: in the layout-order strategy a Table stands in the place of an entry
\* of the layout sequence only when that entry is a LAYOUT_TABLE layout with
\* the Table's geometry; the sequence keeps its length and its other entries.
\* Stated for the responses with one top-level Table.
C17_TableReplacesLayoutTable ==
    (Resolved /\ ro.strategy = "layout" /\ Len(ent.tables) = 1) =>
        LET t == Ref("table", ent.tables[1])
            pos == IndexOf(ro.objects, t)
        IN  (pos > 0 /\ Len(ro.objects) = Len(SortedLayouts)) =>
              /\ ent.layout_objs[SortedLayouts[pos].id].textract_layout_type
                    = "LAYOUT_TABLE"
              /\ ObjectGeometry(ent, SortedLayouts[pos]) = ObjectGeometry(ent, t)
              /\ \A i \in 1..Len(ro.objects) :
                    i # pos => ro.objects[i] = SortedLayouts[i]

\* the number of places of r in sequence q
Occurrences(q, r) == Cardinality({i \in 1..Len(q) : q[i] = r})

\* C18: resolving the top-level order never fails, and in the layout-order
\* strategy every top-level Table has exactly one place in the resolved
\* sequence, whatever the fallback sequence holds around it.
C18_ReconciliationTotal ==
    [][pc = "dummy_layouts" =>
          /\ pc' = "ordered"
          /\ ro'.strategy = "layout" =>
                \A table \in Range(ent.tables) :
                    Occurrences(ro'.objects, Ref("table", table)) = 1]_vars

\* the top-level entities: the tables, keys, values and layouts that no
\* layout holds as child region
TopLevelEntities ==
    {Ref("table", id) : id \in Range(ent.tables)}
        \cup {Ref("key", id) : id \in Range(ent.keys)}
        \cup {Ref("value", id) : id \in Range(ent.values)}
        \cup {Ref("layout", id) : id \in Range(ent.layouts)}

\* C19: the word-order fallback sequence orders all top-level entities: every
\* Table, Key, Value and top-level Layout of a response with one PAGE occurs
\* in the sequence derive_reading_order returned, also those without a Word.
C19_FallbackTotal ==
    (Resolved /\ PageCount = 1) =>
        \A r \in TopLevelEntities : Contains(ro.text_regions, r)

-----------------------------------------------------------------------------
(* Properties of derive_reading_order (Spec).                               *)

\* the first non-null of: table of the parent cell, value, key, layout
OwnerOf(obj) ==
    IF Truthy(obj.parent_cell) THEN Ref("table", obj.parent_cell.t)
    ELSE IF Truthy(obj.parent_value) THEN obj.parent_value
    ELSE IF Truthy(obj.parent_key) THEN obj.parent_key
    ELSE obj.parent_layout
\* the words in block-sequence order give the steps 1, 2, 3, ...: the owner
\* through the line of the first word, through the first word itself,
\* through the line of the second word, ...
OwnerSteps == 1..(2 * Len(reg.word_blocks))
OwnerAt(step) ==
    LET w == ent.words[reg.word_blocks[(step + 1) \div 2]]
    IN  IF step % 2 = 1
        THEN IF Truthy(w.parent_line) THEN OwnerOf(ent.lines[w.parent_line.id])
             ELSE None
        ELSE OwnerOf(w)
FirstSeen(r) ==
    CHOOSE s \in OwnerSteps : OwnerAt(s) = r /\ \A u \in 1..(s - 1) : OwnerAt(u) # r

\* C20: derive_reading_order goes through the Words in block-sequence order;
\* for each Word it resolves an owner through the Word's Line and then
\* through the Word itself, each time the first non-null of (table of the
\* parent cell, value, key, layout); the result holds exactly these owners,
\* each once, in the order in which they were first seen.
C20_DeriveReadingOrder ==
    Resolved =>
        LET q == ro.text_regions
        IN  /\ Range(q) = {OwnerAt(s) : s \in OwnerSteps} \ {None}
            /\ \A i \in 1..Len(q), j \in 1..Len(q) :
                  i < j => q[i] # q[j] /\ FirstSeen(q[i]) < FirstSeen(q[j])

\* two owners in the sequence, one seen again by a later word, and a word
\* whose line has another owner than the word itself
C20_Witness ==
    /\ Resolved
    /\ Len(ro.text_regions) >= 2
    /\ \E s \in OwnerSteps, u \in OwnerSteps :
          s < u /\ Truthy(OwnerAt(s)) /\ OwnerAt(s) = OwnerAt(u)
    /\ \E s \in OwnerSteps :
          /\ s % 2 = 1
          /\ Truthy(OwnerAt(s)) /\ Truthy(OwnerAt(s + 1))
          /\ OwnerAt(s) # OwnerAt(s + 1)

-----------------------------------------------------------------------------
(* Properties of the reading-order tree (Spec).                             *)

RegionTags == {"TextRegion", "ImageRegion", "TableRegion"}
RegionNodeIds == {page.nodes[i].id : i \in {j \in 1..Len(page.nodes) :
                                          page.nodes[j].tag \in RegionTags}}
\* the regionRef of every member of the global group and of every sub-group
RegionRefs ==
    {ro.global[i].regionRef : i \in 1..Len(ro.global)}
        \cup UNION {{ro.global[i].members[k].regionRef :
                        k \in 1..Len(ro.global[i].members)} :
                    i \in 1..Len(ro.global)}

\* C21: in a written document every regionRef of the reading-order tree is
\* the id of an emitted region, every region directly under the Page is
\* referenced by exactly one member of the global group, and no member of
\* the global group stands for a LAYOUT_TABLE layout, a Key or a Value.
C21_ReadingOrderMirrorsPage ==
    pc = "done" =>
        /\ RegionRefs \subseteq RegionNodeIds
        /\ \A n \in TopLevelNodes :
              Cardinality({i \in 1..Len(ro.global) :
                              ro.global[i].regionRef = page.nodes[n].id}) = 1
        /\ \A i \in 1..Len(ro.global) :
              /\ ro.global[i].obj.k \notin {"key", "value"}
              /\ ro.global[i].obj.k = "layout" =>
                    ent.layout_objs[ro.global[i].obj.id].textract_layout_type
                        # "LAYOUT_TABLE"

\* the regions emitted directly under node n, in emission order
ChildRegionsOf(n) ==
    SelectSeq([i \in 1..Len(page.nodes) |-> i],
              LAMBDA i : page.nodes[i].parent = n /\ page.nodes[i].tag \in RegionTags)
\* the members an ordered group holds for the regions under node n
MembersFor(n) ==
    [k \in 1..Len(ChildRegionsOf(n)) |->
        [index |-> k - 1, regionRef |-> page.nodes[ChildRegionsOf(n)[k]].id]]
OwnsSubRegions(lo) ==
    \/ lo.textract_layout_type = "LAYOUT_FIGURE" /\ Len(lo.child_lines) > 0
    \/ Len(lo.child_regions) > 0

\* C22 as the code has it: in the global group of a written document a Table
\* is an unordered sub-group; a Layout is an ordered sub-group exactly when it
\* has a child region or is a LAYOUT_FIGURE with a line, and the sub-group
\* lists the regions emitted under the Layout's region with indices 0, 1, 2,
\* ... in emission order (none for a LAYOUT_TABLE layout, which is not
\* emitted); every other Layout is a leaf reference.
C22_GroupKinds ==
    pc = "done" =>
        \A i \in 1..Len(ro.global) :
            LET m == ro.global[i]
            IN  /\ m.index = i - 1
                /\ m.obj.k = "table" => m.tag = "UnorderedGroupIndexed"
                /\ m.obj.k = "layout" =>
                    LET lo == ent.layout_objs[m.obj.id]
                    IN  IF ~OwnsSubRegions(lo)
                        THEN m.tag = "RegionRefIndexed" /\ m.members = <<>>
                        ELSE /\ m.tag = "OrderedGroupIndexed"
                             /\ IF lo.textract_layout_type = "LAYOUT_TABLE"
                                THEN m.members = <<>>
                                ELSE \E n \in TopLevelNodes :
                                        /\ page.nodes[n].src = m.obj
                                        /\ m.members = MembersFor(n)

\* a written document with a Layout that has lines and one child region: an
\* ordered sub-group with one member
C22_Witness ==
    /\ pc = "done"
    /\ \E i \in 1..Len(ro.global) :
          /\ ro.global[i].tag = "OrderedGroupIndexed"
          /\ Len(ro.global[i].members) = 1
          /\ Len(ent.layout_objs[ro.global[i].obj.id].child_lines) > 0
          /\ Len(ent.layout_objs[ro.global[i].obj.id].child_regions) = 1

\* C22: a top-level Table is an unordered sub-group; a top-level Layout is an
\* ordered sub-group if and only if it owns more than one child, and then the
\* sub-group records the positions of its children; every other top-level
\* entity is a leaf reference.
C22_MultiChildLayoutsOrdered ==
    pc = "done" =>
        \A i \in 1..Len(ro.global) :
            LET m == ro.global[i]
            IN  /\ m.obj.k = "table" => m.tag = "UnorderedGroupIndexed"
                /\ m.obj.k = "layout" =>
                    LET lo == ent.layout_objs[m.obj.id]
                        children == Len(lo.child_lines) + Len(lo.child_regions)
                    IN  IF children > 1
                        THEN /\ m.tag = "OrderedGroupIndexed"
                             /\ Len(m.members) = children
                        ELSE m.tag = "RegionRefIndexed"

-----------------------------------------------------------------------------
(* Properties of the synthesized layouts (Spec).                            *)

\* the layout synthesized around line by the step to the primed state
DummyFor(line) == line \o "_parent"
GotDummy(line) ==
    /\ ~Contains(ent.layouts, DummyFor(line))
    /\ Contains(ent'.layouts, DummyFor(line))
\* the dummy owns exactly the line, has its geometry and its ordering key
DummyWraps(line) ==
    /\ ent'.layout_objs[DummyFor(line)].textract_layout_type = "LAYOUT_DUMMY"
    /\ ent'.layout_objs[DummyFor(line)].child_lines = <<line>>
    /\ ent'.layout_objs[DummyFor(line)].child_regions = <<>>
    /\ ent'.lines[line].parent_layout = Ref("layout", DummyFor(line))
    /\ GeometryOf(Block(ent'.layout_objs[DummyFor(line)].block))
          = GeometryOf(Block(line))
    /\ reg'.block_order[DummyFor(line)] = reg.block_order[line]

\* C23 as the code has it: a Line receives a synthesized single-Line layout
\* if and only if it has no parent Cell and no parent Layout, whether or not
\* a Key or Value owns it; the dummy owns exactly that Line, has the Line's
\* geometry and the Line's block-sequence index as ordering key.
C23_DummyLayouts ==
    [][pc = "dummy_lines" =>
          /\ pc' = "dummy_layouts"
          /\ \A line \in DOMAIN ent.lines :
                /\ GotDummy(line) <=>
                      /\ ~Truthy(ent.lines[line].parent_cell)
                      /\ ~Truthy(ent.lines[line].parent_layout)
                /\ GotDummy(line) => DummyWraps(line)]_vars

\* a line of a key or value got its dummy layout, a line of a cell did not
C23_Witness ==
    /\ pc = "dummy_layouts"
    /\ \E line \in DOMAIN ent.lines :
          /\ Truthy(ent.lines[line].parent_key) \/ Truthy(ent.lines[line].parent_value)
          /\ ent.lines[line].parent_layout = Ref("layout", DummyFor(line))

\* C23: a Line receives a synthesized single-Line layout if and only if it
\* has no parent Cell, no parent Layout, no parent Key and no parent Value.
C23_DummyUnlessOwned ==
    [][pc = "dummy_lines" =>
          \A line \in DOMAIN ent.lines :
              GotDummy(line) <=>
                  /\ ~Truthy(ent.lines[line].parent_cell)
                  /\ ~Truthy(ent.lines[line].parent_layout)
                  /\ ~Truthy(ent.lines[line].parent_key)
                  /\ ~Truthy(ent.lines[line].parent_value)]_vars

-----------------------------------------------------------------------------
(* Properties of nested layouts (Spec).                                     *)

\* <<y, c>>: the LAYOUT block y lists the id c of a LAYOUT_*, TABLE or
\* KEY_VALUE_SET block among its CHILD ids
NestedReferences ==
    {yc \in UNION {{<<inp.Blocks[i].Id, inp.Blocks[j].Id>> :
                        j \in 1..Len(inp.Blocks)} : i \in 1..Len(inp.Blocks)} :
        /\ StartsWithLayout(Block(yc[1]).BlockType)
        /\ Contains(get_ids_of_child_blocks(Block(yc[1])), yc[2])
        /\ \/ StartsWithLayout(Block(yc[2]).BlockType)
           \/ Block(yc[2]).BlockType \in {"TABLE", "KEY_VALUE_SET"}}
\* the regions emitted for the layout, table, key or value of block id
RegionsOf(id) ==
    {i \in 1..Len(page.nodes) :
        /\ page.nodes[i].tag \in RegionTags
        /\ page.nodes[i].src \in {Ref(k, id) : k \in {"layout", "table", "key", "value"}}}

\* C24: when a Layout lists a LAYOUT_*, TABLE or KEY_VALUE_SET block among its
\* CHILD ids, the conversion of the response completes and the listed entity
\* is emitted exactly once, as a region nested in the region of that Layout,
\* never directly under the Page.
C24_NestedEmittedOnce ==
    (Terminal /\ PageCount = 1) =>
        \A yc \in NestedReferences :
            /\ pc = "done"
            /\ Cardinality(RegionsOf(yc[2])) = 1
            /\ \A i \in RegionsOf(yc[2]) :
                  /\ page.nodes[i].parent # 0
                  /\ page.nodes[page.nodes[i].parent].src = Ref("layout", yc[1])

-----------------------------------------------------------------------------
(* Properties of the emitted table cells (Spec).                            *)

\* the CHILD ids of the TABLE block t that are blocks of the given type
TableChildren(t, type) ==
    SelectSeq(get_ids_of_child_blocks(Block(t)), LAMBDA id : id \in IdsOfType(type))
\* the Merged Cell that absorbed the Common Cell c of table t ("" for none):
\* the last MERGED_CELL among the CHILD ids of t that lists c
MergedOf(t, c) ==
    LET owners == SelectSeq(TableChildren(t, "MERGED_CELL"),
                            LAMBDA m : Contains(get_ids_of_child_blocks(Block(m)), c))
    IN  IF Len(owners) = 0 THEN "" ELSE owners[Len(owners)]
\* what the TABLE block t asks for, in the order of its CHILD ids: each
\* Common Cell without Merged Cell, each Merged Cell at its first absorbed cell
ExpectedCells(t) ==
    LET cells == TableChildren(t, "CELL")
        At(k) == IF MergedOf(t, cells[k]) = "" THEN <<"cell", cells[k]>>
                 ELSE <<"merged", MergedOf(t, cells[k])>>
        first == SelectSeq([i \in 1..Len(cells) |-> i],
                           LAMBDA i : \A j \in 1..(i - 1) : At(j) # At(i))
    IN  [k \in 1..Len(first) |-> At(first[k])]
\* the cell sub-regions of the table region at node n, in document order
CellRegions(n) ==
    SelectSeq([i \in 1..Len(page.nodes) |-> i],
              LAMBDA i : page.nodes[i].parent = n /\ page.nodes[i].tag = "TextRegion")
\* the role a CELL or MERGED_CELL block asks for
RoleOf(block) ==
    [rowIndex |-> block.RowIndex - 1, columnIndex |-> block.ColumnIndex - 1,
     rowSpan |-> block.RowSpan, colSpan |-> block.ColumnSpan,
     header |-> "COLUMN_HEADER" \in block.EntityTypes]

\* C25: an emitted table region contains, in the order of the CHILD ids of
\* the TABLE block, one cell sub-region per Common Cell without parent Merged
\* Cell and exactly one per Merged Cell that absorbed a Common Cell, at the
\* position of the first absorbed cell and with the Merged Cell's geometry,
\* indices and spans; an absorbed Common Cell has no sub-region of its own.
C25_CellRegions ==
    pc = "done" =>
        \A n \in Nodes("TableRegion") :
            LET expected == ExpectedCells(page.nodes[n].src.id)
                actual == CellRegions(n)
            IN  /\ Len(actual) = Len(expected)
                /\ \A k \in 1..Len(actual) :
                      /\ page.nodes[actual[k]].src.k = expected[k][1]
                      /\ page.nodes[actual[k]].src.id = expected[k][2]
                      /\ page.nodes[actual[k]].points = PointsOf(Block(expected[k][2]))
                      /\ page.nodes[actual[k]].role = RoleOf(Block(expected[k][2]))

\* a table was emitted whose Merged Cell absorbed two Common Cells
C25_Witness ==
    /\ pc = "done"
    /\ \E n \in Nodes("TableRegion") :
          /\ Len(CellRegions(n)) = 1
          /\ page.nodes[CellRegions(n)[1]].src.k = "merged"
          /\ Len(TableChildren(page.nodes[n].src.id, "CELL")) = 2

-----------------------------------------------------------------------------
(* Properties of the node ids (Spec).                                       *)

\* C26: in a written document the ids of all emitted nodes (regions, text
\* lines, words) are pairwise distinct, also when a Line spans several cells
\* and when its cells were absorbed into the same Merged Cell.  Stated for
\* the responses with one PAGE in which every WORD is in exactly one LINE and
\* every LINE is listed by at most one LAYOUT block.
C26_DistinctIds ==
    (pc = "done" /\ OrdinaryText
        /\ \A l \in IdsOfType("LINE") : Cardinality(LayoutsListingLine(l)) <= 1) =>
        \A i, j \in 1..Len(page.nodes) : page.nodes[i].id = page.nodes[j].id => i = j

-----------------------------------------------------------------------------
(* Properties of get_ids_of_child_blocks (Spec).                            *)

\* the Ids of all CHILD entries of the block's Relationships, in source order
AllChildIds(aws_block) ==
    Flatten([r \in 1..Len(aws_block.Relationships) |->
                IF aws_block.Relationships[r].Type = "CHILD"
                THEN aws_block.Relationships[r].Ids ELSE <<>>])
\* the blocks get_ids_of_child_blocks has been applied to: those of the lines
\* built so far
LinesBuilt == {l \in DOMAIN ent.lines : l \in IdsOfType("LINE")}

\* C27: get_ids_of_child_blocks returns, in source order, every id of every
\* CHILD entry of the block's Relationships (of all such entries, not only the
\* first), ignores the entries of other types, and returns the empty list
\* when the block has no CHILD entry.
C27_AllChildEntries ==
    \A l \in LinesBuilt : get_ids_of_child_blocks(Block(l)) = AllChildIds(Block(l))

-----------------------------------------------------------------------------
(* Properties of the assembly of tables (Spec).                             *)

\* the sub-groups of the primed global group that stand for table t
TableGroups(t) ==
    {g \in 1..Len(ro'.global) :
        /\ ro'.global[g].tag = "UnorderedGroupIndexed"
        /\ ro'.global[g].regionRef = "textract-table_" \o t}
\* the ids of the cell sub-regions of the table region of t in the primed page
CellRegionIds(t) ==
    LET regions == SelectSeq([i \in 1..Len(page'.nodes) |-> i],
            LAMBDA i : /\ page'.nodes[i].tag = "TextRegion"
                       /\ page'.nodes[i].parent # 0
                       /\ page'.nodes[page'.nodes[i].parent].src = Ref("table", t))
    IN  [k \in 1..Len(regions) |-> page'.nodes[regions[k]].id]

\* C28: the assembly of top-level Tables succeeds under both strategies: the
\* unordered group of each Table exists when its cells are emitted (also when
\* no cell holds a Word and the word-order fallback is used) and receives each
\* cell sub-region exactly once, with indices 0..k-1.  Stated for graphs
\* without nested regions.
C28_TablesAssemble ==
    [][(/\ pc = "grouped"
        /\ Len(ent.tables) > 0
        /\ \A y \in Range(ent.layouts) : ent.layout_objs[y].child_regions = <<>>)
       => /\ pc' = "assembled"
          /\ \A t \in Range(ent.tables) :
                /\ Cardinality(TableGroups(t)) = 1
                /\ \A g \in TableGroups(t) :
                      ro'.global[g].members =
                          [k \in 1..Len(CellRegionIds(t)) |->
                              [index |-> k - 1, regionRef |-> CellRegionIds(t)[k]]]]_vars

-----------------------------------------------------------------------------
(* Properties of the words of a cell (Spec).                                *)

\* the WORD blocks the CELL block c lists as CHILD
WordsOfCell(c) == Range(get_ids_of_child_blocks(Block(c))) \cap IdsOfType("WORD")
\* the WORD blocks owned by the cell behind a cell sub-region: its own, or
\* for a Merged Cell those of the Common Cells of table t that it lists
WordsOwned(src) ==
    IF src.k = "cell" THEN WordsOfCell(src.id)
    ELSE UNION {WordsOfCell(c) :
                    c \in Range(get_ids_of_child_blocks(Block(src.id)))
                            \cap Range(TableChildren(src.t, "CELL"))}
\* the WORD blocks of the Word nodes in the text lines of region r
WordsUnder(r) ==
    {page.nodes[w].src.id :
        w \in {i \in Nodes("Word") :
                  /\ page.nodes[i].parent \in Nodes("TextLine")
                  /\ page.nodes[page.nodes[i].parent].parent = r}}
CellRegionNodes ==
    {r \in Nodes("TextRegion") : page.nodes[r].src.k \in {"cell", "merged"}}

\* C29: the Word nodes inside a cell sub-region are exactly the Words owned
\* by that cell (for a Merged Cell the Words of the cells it absorbed); a Word
\* of a Line that lies only partly in the cell is not emitted under it.
\* Stated for the responses with one PAGE in which every WORD is in exactly
\* one LINE.
C29_CellWords ==
    (pc = "done" /\ OrdinaryText) =>
        \A r \in CellRegionNodes : WordsUnder(r) = WordsOwned(page.nodes[r].src)

-----------------------------------------------------------------------------
(* Properties of the output (Spec).                                         *)

\* C30: when no output path is given, what has been written to standard
\* output at the end of the conversion is exactly the serialized document and
\* nothing else, and no file is created; with an output path the document is
\* written only to that file.  Stated for the responses with one PAGE in
\* which every WORD is in exactly one LINE.
C30_OutputChannel ==
    (pc = "done" /\ OrdinaryText) =>
        /\ inp.out_path = "" => fs.stdout = <<"result">> /\ ~fs.file.exists
        /\ inp.out_path # "" =>
              fs.file = [exists |-> TRUE, content |-> "result"]
                  /\ ~Contains(fs.stdout, "result")

=============================================================================
